---- MODULE Spec2Model ----
(***************************************************************************)
(* Model of the interview prompt engine: the prompt composer               *)
(* (engine/composeInterviewPrompt.ts) and the JSON-backed session store    *)
(* (engine/sessionRunner.ts).                                              *)
(*                                                                         *)
(* Representation of text.  A string built by a template literal is a      *)
(* sequence of pieces (TLA+ strings) whose concatenation is the string:    *)
(* `Stack: ${stack.join(" + ")}` is <<"Stack: ", "react", " + ", "ts">>.   *)
(* The composed prompt is the sequence of its lines (lines.join("\n")).    *)
(* A caller-supplied free text (extraContext) is a sequence of one         *)
(* character pieces, so that trim() is computed and not assumed.           *)
(*                                                                         *)
(* Optional values.  undefined is the empty set, a present value v is the  *)
(* singleton {v}.                                                          *)
(***************************************************************************)
EXTENDS Integers, Sequences, FiniteSets, TLC

VARIABLES
  config,   \* the InterviewConfig loaded once per process (read-only)
  build,    \* which build of the session store runs
  file,     \* content of data/sessions.json
  now,      \* the wall clock, in ticks
  uuids,    \* how many identifiers crypto.randomUUID has handed out
  ret,      \* the last call made and what it returned or threw
  pre,      \* the store file and the configuration when the last call started
  kept,     \* an earlier composeInterviewPrompt call, kept for comparison
  local,    \* content of the localStorage item, when both stores run side by side
  temps,    \* content of each process's temporary file next to sessions.json
  procs     \* where each process stands inside its createSession or updateSessionScore

vars == <<config, build, file, now, uuids, ret, pre, kept, local, temps, procs>>

----------------------------------------------------------------------------
(* Optional values and small helpers *)

Undefined == {}

Some(v) == {v}

Get(o) == CHOOSE v \in o : TRUE

\* a ?? b
Coalesce(o, d) == IF o = Undefined THEN d ELSE Get(o)

\* Array.prototype.includes
Includes(s, x) == \E i \in 1..Len(s) : s[i] = x

\* Array.prototype.join: the pieces of the elements separated by sep
RECURSIVE Join(_, _)
Join(s, sep) ==
  IF Len(s) = 0 THEN <<>>
  ELSE IF Len(s) = 1 THEN <<s[1]>>
  ELSE <<s[1], sep>> \o Join(Tail(s), sep)

\* `${n}` for a number n
Str(n) == ToString(n)

\* String.prototype.trim on a sequence of characters
IsSpace(c) == c \in {" ", "\t", "\n"}

RECURSIVE TrimStart(_)
TrimStart(s) ==
  IF Len(s) = 0 THEN <<>>
  ELSE IF IsSpace(s[1]) THEN TrimStart(Tail(s))
  ELSE s

RECURSIVE TrimEnd(_)
TrimEnd(s) ==
  IF Len(s) = 0 THEN <<>>
  ELSE IF IsSpace(s[Len(s)]) THEN TrimEnd(SubSeq(s, 1, Len(s) - 1))
  ELSE s

Trim(s) == TrimEnd(TrimStart(s))

\* Array.from(new Set(xs)): insertion order of first occurrences
RECURSIVE Uniq(_, _)
Uniq(xs, seen) ==
  IF Len(xs) = 0 THEN <<>>
  ELSE IF xs[1] \in seen THEN Uniq(Tail(xs), seen)
  ELSE <<xs[1]>> \o Uniq(Tail(xs), seen \cup {xs[1]})

----------------------------------------------------------------------------
(* Configuration *)

Levels == {"junior", "middle", "senior"}

IncludeSection ==
  <<"idealAnswer", "commonMistakes", "edgeCases", "tradeOffs", "seniorVsMiddle",
    "scoringRubric", "measurementPlan", "rolloutPlan", "securityConsiderations">>

\* the templates of the checked configurations
Tpl1 ==
  [id |-> "t1", title |-> "JavaScript Deep Dive",
   levels |-> <<"junior", "senior">>,
   focus |-> <<"closures", "event-loop">>,
   questionStyles |-> <<"theory", "debugging">>,
   constraints |-> Undefined,
   promptOverrides |-> Undefined]

Tpl2 ==
  [id |-> "t2", title |-> "React Performance",
   levels |-> <<"middle">>,
   focus |-> <<"rendering">>,
   questionStyles |-> <<"scenario">>,
   constraints |-> Some(<<"No frameworks", "Explain trade-offs">>),
   promptOverrides |->
     Some([followUps |-> Some(2),
           include |-> Some(<<"idealAnswer", "commonMistakes">>)])]

Tpl3 ==
  [id |-> "t3", title |-> "System Design",
   levels |-> <<"junior", "middle", "senior">>,
   focus |-> <<>>,
   questionStyles |-> <<>>,
   constraints |-> Some(<<>>),
   promptOverrides |-> Some([followUps |-> Undefined, include |-> Undefined])]

Templates == <<Tpl1, Tpl2, Tpl3>>

\* the include lists of the checked configurations: none, all, each one alone
IncludeLists ==
  {<<>>, IncludeSection} \cup {<<IncludeSection[i]>> : i \in 1..Len(IncludeSection)}

ConfigOf(inc, sim, lang) ==
  [version |-> "1",
   defaults |-> [companyBar |-> "top-tier product company",
                 stack |-> <<"react", "typescript">>,
                 language |-> lang,
                 followUps |-> 3,
                 include |-> inc,
                 simulation |-> sim,
                 timeboxedMinutes |-> 45],
   templates |-> Templates]

Configs ==
  {ConfigOf(inc, sim, "ru") : inc \in IncludeLists, sim \in BOOLEAN} \cup
  {ConfigOf(IncludeSection, FALSE, "en")}

----------------------------------------------------------------------------
(* ComposeOptions *)

Modes ==
  {Undefined, Some([simulation |-> Undefined, english |-> Some(TRUE), timeboxedMinutes |-> Some(30)])} \cup
  {Some([simulation |-> s, english |-> Undefined, timeboxedMinutes |-> t]) :
     s \in {Undefined, Some(TRUE), Some(FALSE)},
     t \in {Undefined, Some(0)}}

Opts ==
  [templateId : {"t1", "t2", "t3", "nope"},
   level : Levels,
   stack : {Undefined, Some(<<>>), Some(<<"vue", "pinia">>)},
   mode : Modes,
   extraContext : {Undefined, Some(<<" ", "\t">>), Some(<<" ", "f", "i", " ">>)},
   focusBoost : {Undefined, Some(<<"event-loop", "hoisting", "event-loop">>)}]

----------------------------------------------------------------------------
(* composeInterviewPrompt *)

\* mutant: falls back to the first template when no id matches
findTemplate_fallback(cfg, opts) ==
  LET hits == {i \in 1..Len(cfg.templates) : cfg.templates[i].id = opts.templateId}
  IN  IF hits = {} THEN Some(cfg.templates[1])
      ELSE Some(cfg.templates[CHOOSE i \in hits : \A j \in hits : i <= j])

\* config.templates.find((t) => t.id === opts.templateId)
findTemplate(cfg, opts) ==
  LET hits == {i \in 1..Len(cfg.templates) : cfg.templates[i].id = opts.templateId}
  IN  IF hits = {} THEN Undefined
      ELSE Some(cfg.templates[CHOOSE i \in hits : \A j \in hits : i <= j])

\* mutant: tests the level against the enumeration, not the template's list
supportsLevel_anyLevel(tpl, opts) == opts.level \in Levels

\* tpl.levels.includes(opts.level)
supportsLevel(tpl, opts) == Includes(tpl.levels, opts.level)

\* opts.mode?.simulation, opts.mode?.english, opts.mode?.timeboxedMinutes
modeSimulation(opts) == IF opts.mode = Undefined THEN Undefined ELSE Get(opts.mode).simulation

modeEnglish(opts) == IF opts.mode = Undefined THEN Undefined ELSE Get(opts.mode).english

modeTimeboxedMinutes(opts) ==
  IF opts.mode = Undefined THEN Undefined ELSE Get(opts.mode).timeboxedMinutes

stackOf(cfg, opts) == Coalesce(opts.stack, cfg.defaults.stack)

\* mutant: || instead of ??, an explicit false falls back to the default
simulationOf_or(cfg, opts) ==
  IF modeSimulation(opts) # Undefined /\ Get(modeSimulation(opts))
  THEN TRUE
  ELSE cfg.defaults.simulation

simulationOf(cfg, opts) == Coalesce(modeSimulation(opts), cfg.defaults.simulation)

timeboxedOf(cfg, opts) == Coalesce(modeTimeboxedMinutes(opts), cfg.defaults.timeboxedMinutes)

englishModeOf(opts) == Coalesce(modeEnglish(opts), FALSE)

\* const include = config.defaults.include
includeOf(cfg, tpl) == cfg.defaults.include

\* const followUps = config.defaults.followUps
followUpsOf(cfg, tpl) == cfg.defaults.followUps

\* mutant: the concatenation without the Set
uniqFocus_concat(tpl, opts) == tpl.focus \o Coalesce(opts.focusBoost, <<>>)

\* Array.from(new Set([...tpl.focus, ...(opts.focusBoost ?? [])]))
uniqFocus(tpl, opts) == Uniq(tpl.focus \o Coalesce(opts.focusBoost, <<>>), {})

\* mutant: the prompt is stamped with the clock
roleLines_dated(cfg) ==
  << <<"ROLE:">>,
     <<"You are a senior frontend interviewer at a ", cfg.defaults.companyBar, ".">>,
     <<"Date: ", ToString(now)>> >>

roleLines(cfg) ==
  << <<"ROLE:">>,
     <<"You are a senior frontend interviewer at a ", cfg.defaults.companyBar, ".">> >>

contextLines(cfg, tpl, opts) ==
  << <<>>,
     <<"CONTEXT:">>,
     <<"Candidate level: ", opts.level>>,
     <<"Stack: ">> \o Join(stackOf(cfg, opts), " + "),
     <<"Interview module: ", tpl.title>>,
     <<"Focus: ">> \o Join(uniqFocus(tpl, opts), ", "),
     <<"Question styles: ">> \o Join(tpl.questionStyles, ", ") >>

\* mutant: tests the untrimmed text
extraContextLines_untrimmed(opts) ==
  IF opts.extraContext # Undefined /\ Get(opts.extraContext) # <<>>
  THEN << <<"Extra context: ">> \o Trim(Get(opts.extraContext)) >>
  ELSE <<>>

\* if (opts.extraContext?.trim()) lines.push(`Extra context: ${...trim()}`)
extraContextLines(opts) ==
  IF opts.extraContext # Undefined /\ Trim(Get(opts.extraContext)) # <<>>
  THEN << <<"Extra context: ">> \o Trim(Get(opts.extraContext)) >>
  ELSE <<>>

taskLines(cfg, tpl) ==
  << <<>>,
     <<"TASK:">>,
     <<"Run a realistic interview segment. Ask 1 main question and ",
       Str(followUpsOf(cfg, tpl)),
       " follow-up questions, progressively harder.">> >>

constraintsLines(tpl) ==
  LET constraints == Coalesce(tpl.constraints, <<>>)
  IN  IF Len(constraints) # 0
      THEN << <<>>, <<"CONSTRAINTS:">> >> \o
           [i \in 1..Len(constraints) |-> <<"- ", constraints[i]>>]
      ELSE <<>>

modeLines(cfg, opts) ==
  << <<>>, <<"MODE:">>,
     <<"- Timebox: ", Str(timeboxedOf(cfg, opts)), " minutes">> >> \o
  (IF simulationOf(cfg, opts)
   THEN << <<"- Simulation: DO NOT provide the answer immediately. Wait for my response.">> >>
   ELSE << <<"- Provide both questions and ideal answers immediately.">> >>) \o
  (IF englishModeOf(opts)
   THEN << <<"- Conduct the interview in English and after my reply correct my English and suggest more native phrasing.">> >>
   ELSE IF cfg.defaults.language = "ru"
   THEN << <<"- Speak Russian unless I answer in English.">> >>
   ELSE <<>>)

\* mutant: the steps follow the default simulation flag, not the effective one
outputFormatHead_defaultFlag(cfg, tpl, opts) ==
  << <<>>, <<"OUTPUT FORMAT:">>,
     <<"1) Main question">>,
     <<"2) Follow-ups (", Str(followUpsOf(cfg, tpl)), ")">> >> \o
  (IF cfg.defaults.simulation
   THEN << <<"3) Wait for my answer">>,
           <<"4) Evaluate my answer strictly like a real interviewer">> >>
   ELSE << <<"3) Ideal answer (structured)">> >>)

outputFormatHead(cfg, tpl, opts) ==
  << <<>>, <<"OUTPUT FORMAT:">>,
     <<"1) Main question">>,
     <<"2) Follow-ups (", Str(followUpsOf(cfg, tpl)), ")">> >> \o
  (IF simulationOf(cfg, opts)
   THEN << <<"3) Wait for my answer">>,
           <<"4) Evaluate my answer strictly like a real interviewer">> >>
   ELSE << <<"3) Ideal answer (structured)">> >>)

\* the line a section name adds to OUTPUT FORMAT; idealAnswer has no
\* include.includes(...) test in the source
sectionLine(name) ==
  CASE name = "commonMistakes" -> <<"- Common mistakes">>
    [] name = "edgeCases" -> <<"- Edge cases">>
    [] name = "tradeOffs" -> <<"- Trade-offs">>
    [] name = "seniorVsMiddle" -> <<"- What differentiates Senior vs Middle answer">>
    [] name = "scoringRubric" ->
         <<"- Scoring rubric (0-10) with criteria: correctness, depth, clarity, trade-offs, practicality">>
    [] name = "measurementPlan" -> <<"- Measurement plan (what, how, success criteria)">>
    [] name = "rolloutPlan" -> <<"- Rollout plan (flags, canary, rollback)">>
    [] name = "securityConsiderations" -> <<"- Security considerations (when relevant)">>

\* the section names tested by the chain of if (include.includes(...)), in order
testedSections ==
  <<"commonMistakes", "edgeCases", "tradeOffs", "seniorVsMiddle", "scoringRubric",
    "measurementPlan", "rolloutPlan", "securityConsiderations">>

sectionPresent(include, name) == Includes(include, name)

RECURSIVE includeLines(_, _)
includeLines(include, names) ==
  IF Len(names) = 0 THEN <<>>
  ELSE (IF sectionPresent(include, names[1]) THEN <<sectionLine(names[1])>> ELSE <<>>) \o
       includeLines(include, Tail(names))

Ok(text) == [ok |-> TRUE, text |-> text, error |-> <<>>]

Throw(error) == [ok |-> FALSE, text |-> <<>>, error |-> error]

composeInterviewPrompt(cfg, opts) ==
  LET found == findTemplate(cfg, opts)
  IN  IF found = Undefined THEN Throw(<<"Unknown templateId: ", opts.templateId>>)
      ELSE
        LET tpl == Get(found)
        IN  IF ~supportsLevel(tpl, opts)
            THEN Throw(<<"Template \"", tpl.id, "\" doesn't support level \"", opts.level, "\"">>)
            ELSE Ok(roleLines(cfg) \o
                    contextLines(cfg, tpl, opts) \o
                    extraContextLines(opts) \o
                    taskLines(cfg, tpl) \o
                    constraintsLines(tpl) \o
                    modeLines(cfg, opts) \o
                    outputFormatHead(cfg, tpl, opts) \o
                    includeLines(includeOf(cfg, tpl), testedSections))

----------------------------------------------------------------------------
(* Session store: JSON values *)

\* A JSON property is [t |-> its typeof ("undefined" when the key is absent),
\* v |-> its value when t is the type the Session type declares].
\* A number is [k |-> "fin" | "nan" | "inf" | "ninf", x |-> hundredths].
NoNumber == [k |-> "fin", x |-> 0]

Fin(x) == [k |-> "fin", x |-> x]

Absent(dflt) == [t |-> "undefined", v |-> dflt]

JString(s) == [t |-> "string", v |-> s]

JNumber(n) == [t |-> "number", v |-> n]

JNull(dflt) == [t |-> "null", v |-> dflt]

\* Number.isFinite
NumberIsFinite(p) == p.t = "number" /\ p.v.k = "fin"

\* Date.prototype.toISOString: a fixed-width, zero-padded rendering of the
\* clock, one piece per digit
DateWidth == 2

Digit(d) == ToString(d)

toISOString(t) == [i \in 1..DateWidth |-> Digit((t \div (10 ^ (DateWidth - i))) % 10)]

\* crypto.randomUUID(): the n-th identifier drawn by the process
randomUUID(n) == "uuid-" \o ToString(n)

\* the two builds of the file store differ in the levels isValidSession
\* accepts; "browser" is the localStorage store of the web UI
Builds == {"junior-middle-senior", "middle-senior", "browser"}

FileBuilds == {"junior-middle-senior", "middle-senior"}

\* the builds that export listSessions
ListBuilds == {"junior-middle-senior", "browser"}

StoreLevels(b) == IF b = "middle-senior" THEN {"middle", "senior"} ELSE Levels

isValidSession(b, value) ==
  IF ~value.obj THEN FALSE
  ELSE
    LET hasValidCore ==
          /\ value.id.t = "string"
          /\ value.date.t = "string"
          /\ value.templateId.t = "string"
          /\ value.level.t = "string" /\ value.level.v \in StoreLevels(b)
        hasValidScore == value.score.t = "undefined" \/ NumberIsFinite(value.score)
        hasValidNotes == value.notes.t = "undefined" \/ value.notes.t = "string"
    IN  hasValidCore /\ hasValidScore /\ hasValidNotes

\* Array.prototype.filter
RECURSIVE Filter(_, _)
Filter(s, b) ==
  IF Len(s) = 0 THEN <<>>
  ELSE (IF isValidSession(b, s[1]) THEN <<s[1]>> ELSE <<>>) \o Filter(Tail(s), b)

MissingFile == [kind |-> "missing", elems |-> <<>>]

ArrayFile(elems) == [kind |-> "array", elems |-> elems]

\* the localStorage store: the parsed array as it is, no element is tested
localReadSessions(f) ==
  IF f.kind = "missing" THEN <<>>
  ELSE IF f.kind = "blank" THEN <<>>
  ELSE IF f.kind = "corrupt" THEN <<>>
  ELSE IF f.kind = "nonarray" THEN <<>>
  ELSE f.elems

\* mutant: one failing element empties the whole list
readSessions_allOrNothing(b, f) ==
  IF b = "browser" THEN localReadSessions(f)
  ELSE IF f.kind # "array" THEN <<>>
  ELSE IF \A i \in 1..Len(f.elems) : isValidSession(b, f.elems[i]) THEN f.elems
  ELSE <<>>

readSessions(b, f) ==
  IF b = "browser" THEN localReadSessions(f)
  ELSE IF f.kind = "missing" THEN <<>>
  ELSE IF f.kind = "blank" THEN <<>>
  ELSE IF f.kind = "corrupt" THEN <<>>
  ELSE IF f.kind = "nonarray" THEN <<>>
  ELSE Filter(f.elems, b)

\* mutant: JSON.parse outside any try block
readOutcome_noCatch(b, f) ==
  [threw |-> f.kind = "corrupt", sessions |-> readSessions(b, f)]

\* what a caller of readSessions gets: its try/catch turns a failing
\* JSON.parse into the empty list, so the call itself never throws
readOutcome(b, f) ==
  [threw |-> FALSE, sessions |-> readSessions(b, f)]

\* mutant: the range test forgotten
validateScore_finiteOnly(score) == score.k = "fin"

\* TRUE when validateScore returns, FALSE when it throws
validateScore(score) == score.k = "fin" /\ ~(score.x < 0) /\ ~(score.x > 1000)

\* mutant: an unknown id falls back to the first record
findSession_orFirst(sessions, sessionId) ==
  IF \E i \in 1..Len(sessions) : sessions[i].id = JString(sessionId)
  THEN CHOOSE i \in 1..Len(sessions) :
         /\ sessions[i].id = JString(sessionId)
         /\ \A j \in 1..(i - 1) : sessions[j].id # JString(sessionId)
  ELSE IF Len(sessions) > 0 THEN 1 ELSE 0

\* Array.prototype.find: the index of the first record with the id, 0 for
\* undefined
findSession(sessions, sessionId) ==
  IF \E i \in 1..Len(sessions) : sessions[i].id = JString(sessionId)
  THEN CHOOSE i \in 1..Len(sessions) :
         /\ sessions[i].id = JString(sessionId)
         /\ \A j \in 1..(i - 1) : sessions[j].id # JString(sessionId)
  ELSE 0

\* mutant: notes assigned whether given or not
applyScore_overwriteNotes(session, score, notes) ==
  [session EXCEPT
     !.score = JNumber(score),
     !.notes = IF notes # Undefined THEN JString(Get(notes)) ELSE Absent("")]

\* session.score = score; if (notes !== undefined) session.notes = notes
applyScore(session, score, notes) ==
  [session EXCEPT
     !.score = JNumber(score),
     !.notes = IF notes # Undefined THEN JString(Get(notes)) ELSE @]

\* mutant: the browser store assigns the notes argument as it is
localApplyScore_overwriteNotes(session, score, notes) ==
  [session EXCEPT
     !.score = JNumber(score),
     !.notes = IF notes # Undefined THEN JString(Get(notes)) ELSE Absent("")]

\* the browser store: session.score = score; session.notes = notes ?? session.notes
localApplyScore(session, score, notes) ==
  [session EXCEPT
     !.score = JNumber(score),
     !.notes = IF notes # Undefined THEN JString(Get(notes)) ELSE session.notes]

\* sessions.find on the localStorage list reads .id of every element up to
\* the match: that read throws a TypeError on a null element
findThrows(b, sessions, sessionId) ==
  /\ b = "browser"
  /\ \E i \in 1..Len(sessions) :
       /\ ~sessions[i].obj
       /\ \A j \in 1..(i - 1) : sessions[j].id # JString(sessionId)

\* String.prototype.localeCompare on timestamps: digit by digit, a proper
\* prefix first
CharRank(c) ==
  CASE c = "0" -> 0 [] c = "1" -> 1 [] c = "2" -> 2 [] c = "3" -> 3 [] c = "4" -> 4
    [] c = "5" -> 5 [] c = "6" -> 6 [] c = "7" -> 7 [] c = "8" -> 8 [] c = "9" -> 9

RECURSIVE localeCompare(_, _)
localeCompare(a, b) ==
  IF Len(a) = 0 /\ Len(b) = 0 THEN 0
  ELSE IF Len(a) = 0 THEN -1
  ELSE IF Len(b) = 0 THEN 1
  ELSE IF CharRank(a[1]) < CharRank(b[1]) THEN -1
  ELSE IF CharRank(a[1]) > CharRank(b[1]) THEN 1
  ELSE localeCompare(Tail(a), Tail(b))

\* mutant: oldest first
compareSessions_ascending(a, b) == localeCompare(a.date.v, b.date.v)

\* the comparator (a, b) => b.date.localeCompare(a.date)
compareSessions(a, b) == localeCompare(b.date.v, a.date.v)

\* the comparator throws a TypeError when it is handed null or a record whose
\* date is no string; a list of two or more hands every element to it
sortThrows(sessions) ==
  /\ Len(sessions) >= 2
  /\ \E i \in 1..Len(sessions) : ~sessions[i].obj \/ sessions[i].date.t # "string"

\* x placed before the first element the comparator puts strictly after it
RECURSIVE insertSession(_, _)
insertSession(sorted, x) ==
  IF Len(sorted) = 0 THEN <<x>>
  ELSE IF compareSessions(x, sorted[1]) < 0 THEN <<x>> \o sorted
  ELSE <<sorted[1]>> \o insertSession(Tail(sorted), x)

\* the first n elements, sorted
RECURSIVE sortPrefix(_, _)
sortPrefix(sessions, n) ==
  IF n = 0 THEN <<>>
  ELSE insertSession(sortPrefix(sessions, n - 1), sessions[n])

\* mutant: the list as stored
sortSessions_asStored(sessions) == sessions

\* Array.prototype.sort with the comparator: a stable sort
sortSessions(sessions) == sortPrefix(sessions, Len(sessions))

\* JSON.stringify then JSON.parse of one property: a non-finite number is
\* written as null, an absent key stays absent
stringifyNumber(p) == IF p.t = "number" /\ p.v.k # "fin" THEN JNull(NoNumber) ELSE p

stringifySession(sn) == [sn EXCEPT !.score = stringifyNumber(sn.score)]

\* the content of the canonical file after writeFileSync + renameSync
writeSessions(sessions) ==
  ArrayFile([i \in 1..Len(sessions) |-> stringifySession(sessions[i])])

newSession(id, date, templateId, level) ==
  [obj |-> TRUE,
   id |-> JString(id),
   date |-> JString(date),
   templateId |-> JString(templateId),
   level |-> JString(level),
   score |-> Absent(NoNumber),
   notes |-> Absent("")]

----------------------------------------------------------------------------
(* Bounds and the inputs of the checked runs *)

MaxClock == 2

MaxCreates == 2

MaxInitLen == 2

MaxListLen == 2

MaxFill == 14

\* configurations and options of the runs that mix composing with the store
SysConfigs == {ConfigOf(IncludeSection, FALSE, "ru")}

SysOpts ==
  {o \in Opts :
     /\ o.stack = Undefined /\ o.focusBoost = Undefined /\ o.extraContext = Undefined
     /\ o.mode = Undefined
     /\ <<o.templateId, o.level>> \in {<<"t1", "senior">>, <<"t2", "senior">>, <<"nope", "junior">>}}

\* elements a sessions.json found on disk may hold
StoredGood ==
  [newSession("a", toISOString(0), "t1", "senior") EXCEPT
     !.score = JNumber(Fin(850)), !.notes = JString("good")]

StoredJunior == newSession("b", toISOString(12), "t2", "junior")

StoredNotObject == [newSession("", <<>>, "", "") EXCEPT !.obj = FALSE]

StoredNullScore == [newSession("d", toISOString(0), "t1", "middle") EXCEPT !.score = JNull(NoNumber)]

InitElems == {StoredGood, StoredJunior, StoredNotObject, StoredNullScore}

RECURSIVE SeqsUpTo(_, _)
SeqsUpTo(S, n) ==
  IF n = 0 THEN {<<>>}
  ELSE LET shorter == SeqsUpTo(S, n - 1)
       IN  shorter \cup {Append(q, x) : q \in {r \in shorter : Len(r) = n - 1}, x \in S}

InitFiles ==
  {MissingFile,
   [kind |-> "blank", elems |-> <<>>],
   [kind |-> "corrupt", elems |-> <<>>],
   [kind |-> "nonarray", elems |-> <<>>]} \cup
  {ArrayFile(q) : q \in SeqsUpTo(InitElems, MaxInitLen)}

CreateTemplateIds == {"t1", ""}

CreateLevels == {"junior", "senior"}

\* arguments of the checked updateSessionScore calls: a stored id, the id of
\* the first record the run creates, an id nothing has
UpdateIds == {"a", randomUUID(1), "zz"}

\* 8.5 and 7
ValidScores == {Fin(850), Fin(700)}

\* the values validateScore refuses: 10.01, -0.01, NaN, +Infinity, -Infinity
InvalidScores ==
  {Fin(1001), Fin(0 - 1), [k |-> "nan", x |-> 0], [k |-> "inf", x |-> 0], [k |-> "ninf", x |-> 0]}

UpdateNotes == {Undefined, Some("good")}

UpdateCalls ==
  {[sessionId |-> id, score |-> sc, notes |-> n] :
     id \in UpdateIds, sc \in ValidScores, n \in UpdateNotes} \cup
  {[sessionId |-> id, score |-> sc, notes |-> Undefined] :
     id \in {"a", "zz"}, sc \in InvalidScores}

\* the localStorage item is written by the store alone: it holds what the
\* store itself writes
LocalElems == {StoredGood, StoredJunior}

LocalFiles ==
  {f \in InitFiles : f.kind = "array" => \A i \in 1..Len(f.elems) : f.elems[i] \in LocalElems}

StoreFiles(b) == IF b = "browser" THEN LocalFiles ELSE InitFiles

----------------------------------------------------------------------------
(* Operations *)

NoCall == [op |-> "none"]

\* the processes that share data/sessions.json
Procs == {1, 2}

\* no temporary file exists
NoTemps == [p \in Procs |-> MissingFile]

\* a process that is in neither createSession nor updateSessionScore
Idle ==
  [pc |-> "idle", call |-> NoCall, n |-> 0, t |-> 0, sessions |-> <<>>,
   before |-> MissingFile, error |-> ""]

NoProcs == [p \in Procs |-> Idle]

Snapshot == [file |-> file, config |-> config]

ComposeCall(o) == [op |-> "compose", args |-> o, res |-> composeInterviewPrompt(config, o)]

\* one call of composeInterviewPrompt(config, o); keep says whether the call is
\* remembered in kept for later comparison (the first kept call stays)
Compose(o, keep) ==
  /\ keep => kept = Undefined
  /\ ret' = ComposeCall(o)
  /\ pre' = Snapshot
  /\ kept' = IF keep THEN Some([call |-> ComposeCall(o), now |-> now, file |-> file]) ELSE kept
  /\ UNCHANGED <<config, build, file, now, uuids, local, temps, procs>>

\* mutant: unshift instead of push
createSession_unshift(templateId, level) ==
  /\ uuids < MaxCreates
  /\ LET session == newSession(randomUUID(uuids + 1), toISOString(now), templateId, level)
         outcome == readOutcome(build, file)
         sessions == <<session>> \o outcome.sessions
     IN  IF outcome.threw
         THEN /\ file' = file
              /\ ret' = [op |-> "createSession", args |-> <<templateId, level>>,
                         ok |-> FALSE, res |-> session]
         ELSE /\ file' = writeSessions(sessions)
              /\ ret' = [op |-> "createSession", args |-> <<templateId, level>>,
                         ok |-> TRUE, res |-> session]
  /\ uuids' = uuids + 1
  /\ pre' = Snapshot
  /\ UNCHANGED <<config, build, now, kept, local, temps, procs>>

\* mutant: the new record pushed onto the parsed array as it is, unfiltered
createOutcome_keepElements(b, f, n, t, templateId, level) ==
  LET session == newSession(randomUUID(n), toISOString(t), templateId, level)
  IN  [ok |-> TRUE, session |-> session, file |-> writeSessions(Append(f.elems, session))]

\* what one createSession call does to the file f when it is the n-th to draw
\* an identifier and the clock reads t
createOutcome(b, f, n, t, templateId, level) ==
  LET session == newSession(randomUUID(n), toISOString(t), templateId, level)
      outcome == readOutcome(b, f)
      sessions == Append(outcome.sessions, session)
  IN  IF outcome.threw THEN [ok |-> FALSE, session |-> session, file |-> f]
      ELSE [ok |-> TRUE, session |-> session, file |-> writeSessions(sessions)]

createSession(templateId, level) ==
  /\ uuids < MaxCreates
  /\ LET done == createOutcome(build, file, uuids + 1, now, templateId, level)
     IN  /\ file' = done.file
         /\ ret' = [op |-> "createSession", args |-> <<templateId, level>>,
                    ok |-> done.ok, res |-> done.session]
  /\ uuids' = uuids + 1
  /\ pre' = Snapshot
  /\ UNCHANGED <<config, build, now, kept, local, temps, procs>>

ScoreError(b) ==
  IF b = "browser" THEN "Score must be a number between 0 and 10"
  ELSE "Score must be a finite number between 0 and 10"

UpdateCall(sessionId, score, notes, ok, error) ==
  [op |-> "updateSessionScore", args |-> [sessionId |-> sessionId, score |-> score, notes |-> notes],
   ok |-> ok, error |-> error]

\* what one updateSessionScore call does to the file f
scoreOutcome(b, f, sessionId, score, notes) ==
  IF ~validateScore(score) THEN [ok |-> FALSE, error |-> ScoreError(b), file |-> f]
  ELSE LET outcome == readOutcome(b, f)
           sessions == outcome.sessions
           i == findSession(sessions, sessionId)
       IN  IF outcome.threw THEN [ok |-> FALSE, error |-> "SyntaxError", file |-> f]
           ELSE IF findThrows(b, sessions, sessionId)
           THEN [ok |-> FALSE, error |-> "TypeError", file |-> f]
           ELSE IF i = 0 THEN [ok |-> FALSE, error |-> "Session not found", file |-> f]
           ELSE [ok |-> TRUE, error |-> "",
                 file |-> writeSessions([sessions EXCEPT ![i] =
                            IF b = "browser" THEN localApplyScore(@, score, notes)
                            ELSE applyScore(@, score, notes)])]

updateSessionScore(sessionId, score, notes) ==
  /\ pre' = Snapshot
  /\ LET done == scoreOutcome(build, file, sessionId, score, notes)
     IN  /\ ret' = UpdateCall(sessionId, score, notes, done.ok, done.error)
         /\ file' = done.file
  /\ UNCHANGED <<config, build, now, uuids, kept, local, temps, procs>>

\* the call this one follows, when that was a createSession that returned
Following == IF ret.op = "createSession" /\ ret.ok THEN Some(ret.res) ELSE Undefined

ListCall(ok, res) == [op |-> "listSessions", ok |-> ok, res |-> res, after |-> Following]

\* what one listSessions call returns on the store content f
listOutcome(b, f) ==
  LET outcome == readOutcome(b, f)
  IN  IF outcome.threw \/ sortThrows(outcome.sessions) THEN [ok |-> FALSE, res |-> <<>>]
      ELSE [ok |-> TRUE, res |-> sortSessions(outcome.sessions)]

listSessions ==
  /\ build \in ListBuilds
  /\ pre' = Snapshot
  /\ LET listed == listOutcome(build, file)
     IN  ret' = ListCall(listed.ok, listed.res)
  /\ UNCHANGED <<config, build, file, now, uuids, kept, local, temps, procs>>

\* the clock advances between calls
Tick ==
  /\ now < MaxClock
  /\ now' = now + 1
  /\ UNCHANGED <<config, build, file, uuids, ret, pre, kept, local, temps, procs>>

\* the files of the runs that mix composing with the store
SysFiles == {MissingFile, ArrayFile(<<StoredGood, StoredNotObject>>)}

Init ==
  /\ config \in SysConfigs
  /\ build \in FileBuilds
  /\ file \in SysFiles
  /\ now = 0
  /\ uuids = 0
  /\ ret = NoCall
  /\ pre = Snapshot
  /\ kept = Undefined
  /\ local = MissingFile
  /\ temps = NoTemps
  /\ procs = NoProcs

Next ==
  \/ \E o \in SysOpts, keep \in BOOLEAN : Compose(o, keep)
  \/ \E t \in CreateTemplateIds, l \in CreateLevels : createSession(t, l)
  \/ Tick

Spec == Init /\ [][Next]_vars

\* the session store alone, started on any of the checked files
InitStore ==
  /\ config \in SysConfigs
  /\ build \in Builds
  /\ file \in StoreFiles(build)
  /\ now = 0
  /\ uuids = 0
  /\ ret = NoCall
  /\ pre = Snapshot
  /\ kept = Undefined
  /\ local = MissingFile
  /\ temps = NoTemps
  /\ procs = NoProcs

NextStore ==
  \/ \E t \in CreateTemplateIds, l \in CreateLevels : createSession(t, l)
  \/ listSessions
  \/ Tick

SpecStore == InitStore /\ [][NextStore]_vars

\* scoring: updateSessionScore calls on a checked file, after at most one
\* createSession
NextScore ==
  \/ \E t \in CreateTemplateIds, l \in Levels : uuids = 0 /\ createSession(t, l)
  \/ \E c \in UpdateCalls : updateSessionScore(c.sessionId, c.score, c.notes)

SpecScore == InitStore /\ [][NextScore]_vars

\* the sessions handed to writeSessions: every level of the Session type, no
\* score or 0, 8.5 or 10, no notes or notes
WrittenSessions ==
  {[newSession("a", toISOString(1), "t1", l) EXCEPT !.score = sc, !.notes = n] :
     l \in Levels,
     sc \in {Absent(NoNumber), JNumber(Fin(0)), JNumber(Fin(850)), JNumber(Fin(1000))},
     n \in {Absent(""), JString("good")}}

\* writeSessions(sessions) followed by readSessions()
RoundTrip(sessions) ==
  /\ ret = NoCall
  /\ file' = writeSessions(sessions)
  /\ ret' = [op |-> "roundTrip", args |-> sessions,
             res |-> readOutcome(build, writeSessions(sessions)).sessions]
  /\ pre' = Snapshot
  /\ UNCHANGED <<config, build, now, uuids, kept, local, temps, procs>>

InitRoundTrip ==
  /\ config \in SysConfigs
  /\ build \in FileBuilds
  /\ file = MissingFile
  /\ now = 0
  /\ uuids = 0
  /\ ret = NoCall
  /\ pre = Snapshot
  /\ kept = Undefined
  /\ local = MissingFile
  /\ temps = NoTemps
  /\ procs = NoProcs

NextRoundTrip == \E sessions \in SeqsUpTo(WrittenSessions, MaxListLen) : RoundTrip(sessions)

SpecRoundTrip == InitRoundTrip /\ [][NextRoundTrip]_vars

\* one call of readSessions() of the file store
loadSessions ==
  /\ ret = NoCall
  /\ LET outcome == readOutcome(build, file)
     IN  ret' = [op |-> "readSessions", ok |-> ~outcome.threw, res |-> outcome.sessions]
  /\ pre' = Snapshot
  /\ UNCHANGED <<config, build, file, now, uuids, kept, local, temps, procs>>

\* the files read: the checked ones and the arrays one element longer
InitRead ==
  /\ config \in SysConfigs
  /\ build \in FileBuilds
  /\ file \in InitFiles \cup {ArrayFile(q) : q \in SeqsUpTo(InitElems, MaxInitLen + 1)}
  /\ now = 0
  /\ uuids = 0
  /\ ret = NoCall
  /\ pre = Snapshot
  /\ kept = Undefined
  /\ local = MissingFile
  /\ temps = NoTemps
  /\ procs = NoProcs

NextRead == loadSessions

SpecRead == InitRead /\ [][NextRead]_vars

\* the browser store emptied: localStorage.removeItem(SESSIONS_KEY)
clearSessions ==
  /\ build = "browser"
  /\ pre' = Snapshot
  /\ file' = MissingFile
  /\ ret' = [op |-> "clearSessions", ok |-> TRUE]
  /\ UNCHANGED <<config, build, now, uuids, kept, local, temps, procs>>

\* stores of records that are valid per the Session type
FrameFiles == {MissingFile} \cup {ArrayFile(q) : q \in SeqsUpTo(LocalElems, MaxInitLen)}

InitFrame ==
  /\ config \in SysConfigs
  /\ build \in Builds
  /\ file \in FrameFiles
  /\ now = 0
  /\ uuids = 0
  /\ ret = NoCall
  /\ pre = Snapshot
  /\ kept = Undefined
  /\ local = MissingFile
  /\ temps = NoTemps
  /\ procs = NoProcs

\* the mutations of the store, and the bulk clear of the browser store
NextFrame ==
  \/ \E t \in CreateTemplateIds, l \in CreateLevels : createSession(t, l)
  \/ \E id \in UpdateIds, n \in UpdateNotes : updateSessionScore(id, Fin(700), n)
  \/ updateSessionScore("a", Fin(1001), Undefined)
  \/ clearSessions

SpecFrame == InitFrame /\ [][NextFrame]_vars

\* new Date() reads the system clock, which an adjustment of the system time
\* between two calls sets back
ClockSetBack ==
  /\ now > 0
  /\ \E t \in 0..(now - 1) : now' = t
  /\ UNCHANGED <<config, build, file, uuids, ret, pre, kept, local, temps, procs>>

\* successive createSession calls of one process under the system clock
NextClock ==
  \/ \E t \in CreateTemplateIds, l \in CreateLevels : createSession(t, l)
  \/ Tick
  \/ ClockSetBack

SpecClock == InitFrame /\ [][NextClock]_vars

\* the file store and the browser store side by side: the same call with the
\* same arguments on each, the same identifier and the same instant
TwinCall(call, args, fileStore, browser) ==
  [op |-> "twin", call |-> call, args |-> args, fileStore |-> fileStore, browser |-> browser]

twinCreate(templateId, level) ==
  /\ uuids < MaxCreates
  /\ LET a == createOutcome(build, file, uuids + 1, now, templateId, level)
         b == createOutcome("browser", local, uuids + 1, now, templateId, level)
     IN  /\ file' = a.file
         /\ local' = b.file
         /\ ret' = TwinCall("createSession", <<templateId, level>>,
                            [ok |-> a.ok, res |-> <<a.session>>],
                            [ok |-> b.ok, res |-> <<b.session>>])
  /\ uuids' = uuids + 1
  /\ pre' = Snapshot
  /\ UNCHANGED <<config, build, now, kept, temps, procs>>

twinUpdate(sessionId, score, notes) ==
  /\ LET a == scoreOutcome(build, file, sessionId, score, notes)
         b == scoreOutcome("browser", local, sessionId, score, notes)
     IN  /\ file' = a.file
         /\ local' = b.file
         /\ ret' = TwinCall("updateSessionScore",
                            [sessionId |-> sessionId, score |-> score, notes |-> notes],
                            [ok |-> a.ok, res |-> <<>>], [ok |-> b.ok, res |-> <<>>])
  /\ pre' = Snapshot
  /\ UNCHANGED <<config, build, now, uuids, kept, temps, procs>>

twinList ==
  /\ ret' = TwinCall("listSessions", <<>>, listOutcome(build, file), listOutcome("browser", local))
  /\ pre' = Snapshot
  /\ UNCHANGED <<config, build, file, local, now, uuids, kept, temps, procs>>

\* both stores empty
InitTwin ==
  /\ config \in SysConfigs
  /\ build = "junior-middle-senior"
  /\ file = MissingFile
  /\ local = MissingFile
  /\ now = 0
  /\ uuids = 0
  /\ ret = NoCall
  /\ pre = Snapshot
  /\ kept = Undefined
  /\ temps = NoTemps
  /\ procs = NoProcs

NextTwin ==
  \/ \E l \in Levels : twinCreate("t1", l)
  \/ \E id \in {randomUUID(1), randomUUID(2), "zz"}, n \in UpdateNotes : twinUpdate(id, Fin(700), n)
  \/ twinUpdate(randomUUID(1), Fin(1001), Undefined)
  \/ twinList
  \/ Tick

SpecTwin == InitTwin /\ [][NextTwin]_vars

----------------------------------------------------------------------------
(* The file store used by two processes: writeSessions statement by statement *)

sessionsPath == "data/sessions.json"

\* mutant: the payload written straight to sessions.json
tempPath_canonical(p) == sessionsPath

\* sessions.<process.pid>.<Date.now()>.tmp: one name per process
tempPath(p) == "data/sessions." \o ToString(p) \o ".tmp"

\* a file opened for writing and truncated, nothing written yet
BlankFile == [kind |-> "blank", elems |-> <<>>]

\* a file that holds the beginning of a payload
PartialFile == [kind |-> "corrupt", elems |-> <<>>]

\* mutant: the exception swallowed, the call returns
raise_swallowed(proc, error) == [proc EXCEPT !.pc = "returned", !.error = error]

\* the call of the process ends with the exception
raise(proc, error) == [proc EXCEPT !.pc = "threw", !.error = error]

\* the content of path becomes content
writeFile(p, path, content) ==
  /\ file' = IF path = sessionsPath THEN content ELSE file
  /\ temps' = IF path = sessionsPath THEN temps ELSE [temps EXCEPT ![p] = content]

\* the statements before readSessions: the new record of createSession, the
\* validateScore of updateSessionScore
enter(p, call) ==
  /\ procs[p].pc = "idle"
  /\ IF call.op = "createSession"
     THEN /\ uuids' = uuids + 1
          /\ procs' = [procs EXCEPT ![p] =
                         [Idle EXCEPT !.pc = "read", !.call = call, !.n = uuids + 1, !.t = now]]
     ELSE /\ uuids' = uuids
          /\ procs' = [procs EXCEPT ![p] =
                         IF validateScore(call.score)
                         THEN [Idle EXCEPT !.pc = "read", !.call = call]
                         ELSE raise([Idle EXCEPT !.call = call], ScoreError(build))]
  /\ UNCHANGED <<config, build, file, now, ret, pre, kept, local, temps>>

\* the list a call hands to writeSessions, from the list it read
changed(proc, sessions) ==
  IF proc.call.op = "createSession"
  THEN Append(sessions, newSession(randomUUID(proc.n), toISOString(proc.t),
                                   proc.call.templateId, proc.call.level))
  ELSE [sessions EXCEPT ![findSession(sessions, proc.call.sessionId)] =
          applyScore(@, proc.call.score, proc.call.notes)]

\* readSessions and the statements up to the call of writeSessions
load(p) ==
  /\ procs[p].pc = "read"
  /\ LET proc == procs[p]
         sessions == readSessions(build, file)
     IN  procs' = [procs EXCEPT ![p] =
           IF proc.call.op = "updateSessionScore" /\ findSession(sessions, proc.call.sessionId) = 0
           THEN raise([proc EXCEPT !.before = file], "Session not found")
           ELSE [proc EXCEPT !.pc = "write", !.before = file, !.sessions = changed(proc, sessions)]]
  /\ UNCHANGED <<config, build, file, now, uuids, ret, pre, kept, local, temps>>

\* writeFileSync opens the temporary file, or fails to
openTemp(p, fails) ==
  /\ procs[p].pc = "write"
  /\ IF fails
     THEN /\ procs' = [procs EXCEPT ![p] = raise(@, "EACCES")]
          /\ UNCHANGED <<file, temps>>
     ELSE /\ procs' = [procs EXCEPT ![p].pc = "writing"]
          /\ writeFile(p, tempPath(p), BlankFile)
  /\ UNCHANGED <<config, build, now, uuids, ret, pre, kept, local>>

\* writeFileSync writes the payload, or fails part of the way
writeTemp(p, fails) ==
  /\ procs[p].pc = "writing"
  /\ IF fails
     THEN /\ procs' = [procs EXCEPT ![p] = raise(@, "ENOSPC")]
          /\ writeFile(p, tempPath(p), PartialFile)
     ELSE /\ procs' = [procs EXCEPT ![p].pc = "rename"]
          /\ writeFile(p, tempPath(p), writeSessions(procs[p].sessions))
  /\ UNCHANGED <<config, build, now, uuids, ret, pre, kept, local>>

\* mutant: the change applied to what sessions.json holds at the rename
renameTemp_merged(p, fails) ==
  /\ procs[p].pc = "rename"
  /\ IF fails
     THEN /\ procs' = [procs EXCEPT ![p] = raise(@, "EPERM")]
          /\ UNCHANGED <<file, temps>>
     ELSE /\ procs' = [procs EXCEPT ![p].pc = "returned"]
          /\ file' = writeSessions(changed(procs[p], readSessions(build, file)))
          /\ temps' = [temps EXCEPT ![p] = MissingFile]
  /\ UNCHANGED <<config, build, now, uuids, ret, pre, kept, local>>

\* renameSync(tempPath, sessionsPath): sessions.json becomes the temporary
\* file in one step, or the rename fails and nothing moves
renameTemp(p, fails) ==
  /\ procs[p].pc = "rename"
  /\ IF fails
     THEN /\ procs' = [procs EXCEPT ![p] = raise(@, "EPERM")]
          /\ UNCHANGED <<file, temps>>
     ELSE /\ procs' = [procs EXCEPT ![p].pc = "returned"]
          /\ IF tempPath(p) = sessionsPath
             THEN UNCHANGED <<file, temps>>
             ELSE /\ file' = temps[p]
                  /\ temps' = [temps EXCEPT ![p] = MissingFile]
  /\ UNCHANGED <<config, build, now, uuids, ret, pre, kept, local>>

\* a reader opens sessions.json and reads what it holds; writers are the
\* processes inside writeSessions at that moment
observe ==
  /\ ret' = [op |-> "observe", res |-> file,
             writers |-> [p \in {q \in Procs : procs[q].pc \in {"write", "writing", "rename"}} |->
                            [pc |-> procs[p].pc, before |-> procs[p].before,
                             sessions |-> procs[p].sessions]],
             renamed |-> {procs[p].sessions : p \in {q \in Procs : procs[q].pc = "returned"}}]
  /\ UNCHANGED <<config, build, file, now, uuids, pre, kept, local, temps, procs>>

InitConc ==
  /\ config \in SysConfigs
  /\ build \in FileBuilds
  /\ file \in {MissingFile, ArrayFile(<<StoredGood>>)}
  /\ now = 0
  /\ uuids = 0
  /\ ret = NoCall
  /\ pre = Snapshot
  /\ kept = Undefined
  /\ local = MissingFile
  /\ temps = NoTemps
  /\ procs = NoProcs

NextConc ==
  \/ \E p \in Procs :
       enter(p, [op |-> "createSession", templateId |-> "t1", level |-> "senior"])
  \/ \E p \in Procs, c \in {<<"a", Fin(700)>>, <<"zz", Fin(700)>>, <<"a", Fin(1001)>>} :
       enter(p, [op |-> "updateSessionScore", sessionId |-> c[1], score |-> c[2],
                 notes |-> Undefined])
  \/ \E p \in Procs : load(p)
  \/ \E p \in Procs, fails \in BOOLEAN : openTemp(p, fails)
  \/ \E p \in Procs, fails \in BOOLEAN : writeTemp(p, fails)
  \/ \E p \in Procs, fails \in BOOLEAN : renameTemp(p, fails)
  \/ observe

SpecConc == InitConc /\ [][NextConc]_vars

----------------------------------------------------------------------------
\* the composer alone, over every checked configuration and option record
InitCompose ==
  /\ config \in Configs
  /\ build = "junior-middle-senior"
  /\ file = MissingFile
  /\ now = 0
  /\ uuids = 0
  /\ ret = NoCall
  /\ pre = Snapshot
  /\ kept = Undefined
  /\ local = MissingFile
  /\ temps = NoTemps
  /\ procs = NoProcs

\* one call per run: the result of a pure function needs no second call
ComposeOnce(o) == ret = NoCall /\ Compose(o, FALSE)

NextCompose == \E o \in Opts : ComposeOnce(o)

SpecCompose == InitCompose /\ [][NextCompose]_vars

----------------------------------------------------------------------------
(* Front ends: the CLI and the HTTP server *)

\* assertTemplateSupportsLevel: Ok when it returns, Throw with the message
assertTemplateSupportsLevel(cfg, templateId, level) ==
  LET hits == {i \in 1..Len(cfg.templates) : cfg.templates[i].id = templateId}
  IN  IF hits = {} THEN Throw(<<"Unknown templateId: ", templateId>>)
      ELSE IF ~Includes(cfg.templates[CHOOSE i \in hits : \A j \in hits : i <= j].levels, level)
      THEN Throw(<<"Template \"", templateId, "\" does not support level \"", level, "\"">>)
      ELSE Ok(<<>>)

\* the options both front ends hand to composeInterviewPrompt
frontComposeOptions(templateId, level) ==
  [templateId |-> templateId,
   level |-> level,
   stack |-> Undefined,
   focusBoost |-> Undefined,
   extraContext |-> Undefined,
   mode |-> Some([simulation |-> Undefined, english |-> Undefined, timeboxedMinutes |-> Undefined])]

\* how a run of the CLI ends: the exit code, the message of the error it
\* caught, the calls it made in order, the session it created, the file it left
CliRun(exit, error, trace, created, f) ==
  [exit |-> exit, error |-> error, trace |-> trace, created |-> created, file |-> f]

runRecordEvalMode(b, f, options) ==
  IF options.sessionId = Undefined \/ options.sessionId = Some("")
  THEN CliRun(1, <<"--record-eval requires --session-id">>, <<>>, Undefined, f)
  ELSE IF options.score = Undefined
  THEN CliRun(1, <<"--record-eval requires --score">>, <<>>, Undefined, f)
  ELSE LET done == scoreOutcome(b, f, Get(options.sessionId), Get(options.score), options.notes)
       IN  IF done.ok THEN CliRun(0, <<>>, <<"update">>, Undefined, done.file)
           ELSE CliRun(1, <<done.error>>, <<"update">>, Undefined, f)

\* mutant: the session just created comes before --session-id
targetSessionId_createdFirst(options, created) ==
  IF created # Undefined THEN Some(Get(created).id.v) ELSE options.sessionId

\* options.sessionId ?? sessionId
targetSessionId(options, created) ==
  IF options.sessionId # Undefined THEN options.sessionId
  ELSE IF created # Undefined THEN Some(Get(created).id.v)
  ELSE Undefined

\* main from the printing of the prompt on: the score, when one was given, is
\* saved on --session-id or else on the session just created
saveScore(b, f, trace, created, options) ==
  LET target == targetSessionId(options, created)
      printed == Append(trace, "print")
  IN  IF options.score = Undefined THEN CliRun(0, <<>>, printed, created, f)
      ELSE IF target = Undefined \/ target = Some("")
      THEN CliRun(1, <<"Cannot save score: use --session-id or enable session creation">>,
                  printed, created, f)
      ELSE LET done == scoreOutcome(b, f, Get(target), Get(options.score), options.notes)
           IN  IF done.ok THEN CliRun(0, <<>>, Append(printed, "update"), created, done.file)
               ELSE CliRun(1, <<done.error>>, Append(printed, "update"), created, f)

\* mutant: the session is created before the template and level are looked at
runGenerateMode_createFirst(cfg, b, f, n, t, options) ==
  LET checked == assertTemplateSupportsLevel(cfg, options.templateId, options.level)
      prompt == composeInterviewPrompt(cfg, frontComposeOptions(options.templateId, options.level))
      made == createOutcome(b, f, n, t, options.templateId, options.level)
  IN  IF ~options.persistSession
      THEN (IF ~checked.ok THEN CliRun(1, checked.error, <<"validate">>, Undefined, f)
            ELSE saveScore(b, f, <<"validate", "compose">>, Undefined, options))
      ELSE IF ~made.ok THEN CliRun(1, <<"SyntaxError">>, <<"create">>, Undefined, f)
      ELSE IF ~checked.ok
      THEN CliRun(1, checked.error, <<"create", "validate">>, Some(made.session), made.file)
      ELSE IF ~prompt.ok
      THEN CliRun(1, prompt.error, <<"create", "validate", "compose">>, Some(made.session), made.file)
      ELSE saveScore(b, made.file, <<"create", "validate", "compose">>, Some(made.session), options)

\* main in generate mode
runGenerateMode(cfg, b, f, n, t, options) ==
  LET checked == assertTemplateSupportsLevel(cfg, options.templateId, options.level)
      prompt == composeInterviewPrompt(cfg, frontComposeOptions(options.templateId, options.level))
      made == createOutcome(b, f, n, t, options.templateId, options.level)
  IN  IF ~checked.ok THEN CliRun(1, checked.error, <<"validate">>, Undefined, f)
      ELSE IF ~prompt.ok THEN CliRun(1, prompt.error, <<"validate", "compose">>, Undefined, f)
      ELSE IF ~options.persistSession
      THEN saveScore(b, f, <<"validate", "compose">>, Undefined, options)
      ELSE IF ~made.ok
      THEN CliRun(1, <<"SyntaxError">>, <<"validate", "compose", "create">>, Undefined, f)
      ELSE saveScore(b, made.file, <<"validate", "compose", "create">>, Some(made.session), options)

\* one run of the CLI: main inside the try/catch that ends in process.exit(1)
main(options) ==
  /\ uuids < MaxCreates
  /\ LET run == IF options.help \/ options.listTemplates
                THEN CliRun(0, <<>>, <<>>, Undefined, file)
                ELSE IF options.recordEval THEN runRecordEvalMode(build, file, options)
                ELSE runGenerateMode(config, build, file, uuids + 1, now, options)
     IN  /\ file' = run.file
         /\ uuids' = IF Includes(run.trace, "create") THEN uuids + 1 ELSE uuids
         /\ ret' = [op |-> "main", args |-> options, exit |-> run.exit, error |-> run.error,
                    trace |-> run.trace, created |-> run.created]
  /\ pre' = Snapshot
  /\ UNCHANGED <<config, build, now, kept, local, temps, procs>>

\* isLevel of the server
isLevel(value) == value \in {"junior", "middle", "senior"}

\* mutant: the persistSession flag of the payload is not read
shouldPersist_always(payload) == TRUE

\* payload.persistSession ?? true
shouldPersist(payload) == Coalesce(payload.persistSession, TRUE)

\* one POST /api/generate request: the handler, and the catch of the server
\* that answers 400 with the message
generate(payload) ==
  /\ uuids < MaxCreates
  /\ LET required ==
           \/ payload.templateId = Undefined \/ payload.templateId = Some("")
           \/ payload.level = Undefined \/ payload.level = Some("")
           \/ ~isLevel(Get(payload.level))
         templateId == Get(payload.templateId)
         level == Get(payload.level)
         checked == assertTemplateSupportsLevel(config, templateId, level)
         prompt == composeInterviewPrompt(config, frontComposeOptions(templateId, level))
         made == createOutcome(build, file, uuids + 1, now, templateId, level)
         run == IF required
                THEN CliRun(400, <<"templateId and valid level are required">>, <<"validate">>,
                            Undefined, file)
                ELSE IF ~checked.ok THEN CliRun(400, checked.error, <<"validate">>, Undefined, file)
                ELSE IF ~prompt.ok
                THEN CliRun(400, prompt.error, <<"validate", "compose">>, Undefined, file)
                ELSE IF ~shouldPersist(payload)
                THEN CliRun(200, <<>>, <<"validate", "compose">>, Undefined, file)
                ELSE IF ~made.ok
                THEN CliRun(400, <<"SyntaxError">>, <<"validate", "compose", "create">>,
                            Undefined, file)
                ELSE CliRun(200, <<>>, <<"validate", "compose", "create">>,
                            Some(made.session), made.file)
     IN  /\ file' = run.file
         /\ uuids' = IF Includes(run.trace, "create") THEN uuids + 1 ELSE uuids
         /\ ret' = [op |-> "generate", args |-> payload, status |-> run.exit,
                    error |-> run.error, trace |-> run.trace,
                    sessionId |-> IF run.created = Undefined THEN Undefined
                                  ELSE Some(Get(run.created).id.v),
                    created |-> run.created]
  /\ pre' = Snapshot
  /\ UNCHANGED <<config, build, now, kept, local, temps, procs>>

\* the option records of the checked CLI runs
GenerateOptions ==
  {[help |-> FALSE, listTemplates |-> FALSE, recordEval |-> FALSE,
    templateId |-> t, level |-> l, persistSession |-> p,
    sessionId |-> sc[1], score |-> sc[2], notes |-> Undefined] :
     t \in {"t1", "nope"}, l \in Levels, p \in BOOLEAN,
     sc \in {<<Undefined, Undefined>>, <<Undefined, Some(Fin(850))>>,
             <<Some("a"), Some(Fin(850))>>, <<Some("zz"), Some(Fin(850))>>}}

OtherOptions ==
  {[help |-> h, listTemplates |-> ~h, recordEval |-> FALSE,
    templateId |-> "t1", level |-> "senior", persistSession |-> TRUE,
    sessionId |-> Undefined, score |-> Undefined, notes |-> Undefined] : h \in BOOLEAN} \cup
  {[help |-> FALSE, listTemplates |-> FALSE, recordEval |-> TRUE,
    templateId |-> "t1", level |-> "senior", persistSession |-> TRUE,
    sessionId |-> id, score |-> sc, notes |-> Some("good")] :
     id \in {Undefined, Some("a")}, sc \in {Undefined, Some(Fin(700))}}

\* the JSON bodies of the checked requests
GeneratePayloads ==
  [templateId : {Undefined, Some("t1"), Some("nope")},
   level : {Undefined, Some("junior"), Some("middle"), Some("lead")},
   persistSession : {Undefined, Some(TRUE), Some(FALSE)}]

InitFront ==
  /\ config \in SysConfigs
  /\ build \in FileBuilds
  /\ file \in SysFiles
  /\ now = 0
  /\ uuids = 0
  /\ ret = NoCall
  /\ pre = Snapshot
  /\ kept = Undefined
  /\ local = MissingFile
  /\ temps = NoTemps
  /\ procs = NoProcs

NextFront ==
  \/ \E options \in GenerateOptions \cup OtherOptions : main(options)
  \/ \E payload \in GeneratePayloads : generate(payload)

SpecFront == InitFront /\ [][NextFront]_vars

----------------------------------------------------------------------------
(* basicScoreEvaluation *)

\* An answer is a sequence of characters, one piece per UTF-16 code unit.
UpperLetters ==
  <<"A", "B", "C", "D", "E", "F", "G", "H", "I", "J", "K", "L", "M",
    "N", "O", "P", "Q", "R", "S", "T", "U", "V", "W", "X", "Y", "Z">>

LowerLetters ==
  <<"a", "b", "c", "d", "e", "f", "g", "h", "i", "j", "k", "l", "m",
    "n", "o", "p", "q", "r", "s", "t", "u", "v", "w", "x", "y", "z">>

toLowerCaseChar(c) ==
  IF \E i \in 1..Len(UpperLetters) : UpperLetters[i] = c
  THEN LowerLetters[CHOOSE i \in 1..Len(UpperLetters) : UpperLetters[i] = c]
  ELSE c

\* mutant: the answer searched as typed
toLowerCase_asTyped(text) == text

\* String.prototype.toLowerCase
toLowerCase(text) == [i \in 1..Len(text) |-> toLowerCaseChar(text[i])]

\* String.prototype.includes
includes(text, pattern) ==
  \E i \in 0..(Len(text) - Len(pattern)) : SubSeq(text, i + 1, i + Len(pattern)) = pattern

TradeOffText == <<"t", "r", "a", "d", "e", "-", "o", "f", "f">>

ComplexityText == <<"o", "(">>

\* Math.round of the non-negative ratio num / den: halves go up
MathRound(num, den) == (2 * num + den) \div (2 * den)

MathMin(a, b) == IF a < b THEN a ELSE b

\* lengthScore is kept as the number of two-hundredths it holds:
\* Math.min(answer.length / 200, 3) is Math.min(answer.length, 600) / 200
basicScoreEvaluation(answer) ==
  LET lengthScore == MathMin(Len(answer), 600)
      tradeOffBonus == IF includes(toLowerCase(answer), TradeOffText) THEN 2 ELSE 0
      complexityBonus == IF includes(toLowerCase(answer), ComplexityText) THEN 2 ELSE 0
      rawScore == lengthScore + 200 * tradeOffBonus + 200 * complexityBonus
      score == MathMin(MathRound(rawScore, 200), 10)
  IN  [score |-> score,
       strengths |->
         (IF tradeOffBonus # 0 THEN <<"Discussed trade-offs">> ELSE <<>>) \o
         (IF complexityBonus # 0 THEN <<"Mentioned complexity analysis">> ELSE <<>>),
       weaknesses |-> IF score < 6 THEN <<"Answer lacks depth or structure">> ELSE <<>>,
       recommendations |->
         IF score < 7 THEN <<"Add trade-offs", "Add edge cases", "Be more structured">>
         ELSE <<"Improve clarity and communication polish">>]

\* the checked answers: a run of filler characters followed by an ending
AnswerText(a) == [i \in 1..a.fill |-> "x"] \o a.ending

\* filler lengths that put the answer's length on, just under and just over
\* the multiples of 50 up to 50 * MaxFill
Fills == {n \in {50 * k - e : k \in 0..MaxFill, e \in {0, 1, 2, 3, 9, 10, 11, 12}} : n >= 0}

Endings ==
  {<<>>,
   <<"t", "r", "a", "d", "e", "-", "o", "f", "f">>,
   <<"T", "r", "a", "d", "e", "-", "O", "f", "f">>,
   <<"T", "R", "A", "D", "E", "-", "O", "F", "F">>,
   <<"t", "r", "a", "d", "e", " ", "o", "f", "f">>,
   <<"t", "r", "a", "d", "e", "o", "f", "f", "s">>,
   <<"o", "(">>,
   <<"O", "(">>,
   <<"(", "o">>,
   <<"o", " ", "(">>,
   <<"O", "(", "n", ")", " ", "t", "r", "a", "d", "e", "-", "o", "f", "f">>,
   <<"T", "R", "A", "D", "E", "-", "O", "F", "F", " ", "o", "(", "1", ")">>,
   <<"t", "r", "a", "d", "e", "-", "o", "(">>}

Answers == [fill : Fills, ending : Endings]

\* one call of basicScoreEvaluation per run: it keeps nothing between calls
Evaluate(a) ==
  /\ ret = NoCall
  /\ ret' = [op |-> "basicScoreEvaluation", args |-> a,
             res |-> basicScoreEvaluation(AnswerText(a))]
  /\ pre' = Snapshot
  /\ UNCHANGED <<config, build, file, now, uuids, kept, local, temps, procs>>

InitScorer ==
  /\ config \in SysConfigs
  /\ build = "junior-middle-senior"
  /\ file = MissingFile
  /\ now = 0
  /\ uuids = 0
  /\ ret = NoCall
  /\ pre = Snapshot
  /\ kept = Undefined
  /\ local = MissingFile
  /\ temps = NoTemps
  /\ procs = NoProcs

NextScorer == \E a \in Answers : Evaluate(a)

SpecScorer == InitScorer /\ [][NextScorer]_vars

----------------------------------------------------------------------------
(* Reading a composed text *)

Composed == ret.op = "compose"

ComposedOk == ret.op = "compose" /\ ret.res.ok

HasLine(text, line) == \E i \in 1..Len(text) : text[i] = line

\* the lines that start with the piece head
LinesWithHead(text, head) == {i \in 1..Len(text) : Len(text[i]) > 0 /\ text[i][1] = head}

\* the templates of the configuration that have the requested id
Requested == {i \in 1..Len(config.templates) : config.templates[i].id = ret.args.templateId}

\* a value the caller supplied, or the default when the caller supplied none
SuppliedOr(supplied, dflt) == IF supplied = {} THEN dflt ELSE CHOOSE v \in supplied : TRUE

----------------------------------------------------------------------------
(* C1 *)

\* C1: composing with a templateId that no template of the configuration has
\* fails with the unknown-template error and returns no text, whatever the
\* other options are.
C1_UnknownTemplateFails ==
  (Composed /\ Requested = {}) =>
    /\ ~ret.res.ok
    /\ ret.res.text = <<>>
    /\ ret.res.error = <<"Unknown templateId: ", ret.args.templateId>>

C1_Witness ==
  /\ Composed /\ Requested = {} /\ ~ret.res.ok
  /\ ret.args.stack # Undefined /\ ret.args.mode # Undefined

----------------------------------------------------------------------------
(* C2 *)

\* C2: when the template exists, composing fails exactly when the template's
\* levels list does not contain the level; when it succeeds the text is not
\* empty and contains the template's title.
C2_LevelDecidesSuccess ==
  Composed =>
    \A i \in Requested :
      LET tpl == config.templates[i]
      IN  IF \E k \in 1..Len(tpl.levels) : tpl.levels[k] = ret.args.level
          THEN /\ ret.res.ok
               /\ ret.res.text # <<>>
               /\ \E n \in 1..Len(ret.res.text) :
                    \E m \in 1..Len(ret.res.text[n]) : ret.res.text[n][m] = tpl.title
          ELSE /\ ~ret.res.ok
               /\ ret.res.text = <<>>

C2_Witness ==
  /\ ComposedOk
  /\ ret.args.templateId = "t1" /\ ret.args.level = "senior"
  /\ HasLine(ret.res.text, <<"Interview module: ", "JavaScript Deep Dive">>)

----------------------------------------------------------------------------
(* C3 *)

\* what the data model and the README say a template's promptOverrides do
DocumentedFollowUps(tpl) ==
  IF tpl.promptOverrides # Undefined /\ (CHOOSE po \in tpl.promptOverrides : TRUE).followUps # Undefined
  THEN CHOOSE n \in (CHOOSE po \in tpl.promptOverrides : TRUE).followUps : TRUE
  ELSE config.defaults.followUps

DocumentedInclude(tpl) ==
  IF tpl.promptOverrides # Undefined /\ (CHOOSE po \in tpl.promptOverrides : TRUE).include # Undefined
  THEN CHOOSE inc \in (CHOOSE po \in tpl.promptOverrides : TRUE).include : TRUE
  ELSE config.defaults.include

\* C3: the follow-up count in TASK and OUTPUT FORMAT and the optional section
\* lines are those of the template's promptOverrides (followUps, include) when
\* the template defines them, and those of the configuration defaults only
\* otherwise.
C3_TemplateOverridesApply ==
  ComposedOk =>
    \A i \in Requested :
      LET tpl == config.templates[i]
          text == ret.res.text
      IN  /\ HasLine(text, <<"Run a realistic interview segment. Ask 1 main question and ",
                             ToString(DocumentedFollowUps(tpl)),
                             " follow-up questions, progressively harder.">>)
          /\ HasLine(text, <<"2) Follow-ups (", ToString(DocumentedFollowUps(tpl)), ")">>)
          /\ HasLine(text, <<"- Common mistakes">>) <=>
               (\E k \in 1..Len(DocumentedInclude(tpl)) : DocumentedInclude(tpl)[k] = "commonMistakes")
          /\ HasLine(text, <<"- Edge cases">>) <=>
               (\E k \in 1..Len(DocumentedInclude(tpl)) : DocumentedInclude(tpl)[k] = "edgeCases")

----------------------------------------------------------------------------
(* C4 *)

SuppliedMode(field) ==
  IF ret.args.mode = {} THEN {}
  ELSE LET mode == CHOOSE m \in ret.args.mode : TRUE
       IN  CASE field = "simulation" -> mode.simulation
             [] field = "timeboxedMinutes" -> mode.timeboxedMinutes

ExpectedStack == SuppliedOr(ret.args.stack, config.defaults.stack)

ExpectedSimulation == SuppliedOr(SuppliedMode("simulation"), config.defaults.simulation)

ExpectedTimebox == SuppliedOr(SuppliedMode("timeboxedMinutes"), config.defaults.timeboxedMinutes)

SimulationLine == <<"- Simulation: DO NOT provide the answer immediately. Wait for my response.">>

DirectLine == <<"- Provide both questions and ideal answers immediately.">>

\* the elements of a list rendered by join: the pieces at the odd positions
Unjoin(pieces) == [k \in 1..((Len(pieces) + 1) \div 2) |-> pieces[2 * k - 1]]

\* C4: the stack, the simulation flag and the timebox rendered in the text are
\* the caller's values when the caller supplies them (an explicit false, an
\* empty list and 0 included) and the configuration defaults exactly when the
\* caller supplies none.
C4_CallerOverridesDefaults ==
  ComposedOk =>
    LET text == ret.res.text
    IN  /\ Cardinality(LinesWithHead(text, "Stack: ")) = 1
        /\ \A i \in LinesWithHead(text, "Stack: ") :
             /\ Unjoin(Tail(text[i])) = ExpectedStack
             /\ \A k \in 1..Len(text[i]) : (k > 1 /\ k % 2 = 1) => text[i][k] = " + "
        /\ Cardinality(LinesWithHead(text, "- Timebox: ")) = 1
        /\ \A i \in LinesWithHead(text, "- Timebox: ") :
             text[i] = <<"- Timebox: ", ToString(ExpectedTimebox), " minutes">>
        /\ HasLine(text, SimulationLine) <=> ExpectedSimulation
        /\ HasLine(text, DirectLine) <=> ~ExpectedSimulation

\* the caller turns off a simulation that is on by default, passes an empty
\* stack and a timebox of 0
C4_Witness ==
  /\ ComposedOk
  /\ config.defaults.simulation
  /\ ret.args.stack = {<<>>}
  /\ SuppliedMode("simulation") = {FALSE}
  /\ SuppliedMode("timeboxedMinutes") = {0}
  /\ HasLine(ret.res.text, <<"Stack: ">>)
  /\ HasLine(ret.res.text, <<"- Timebox: ", "0", " minutes">>)
  /\ HasLine(ret.res.text, DirectLine)

----------------------------------------------------------------------------
(* C5 *)

FocusInput ==
  LET tpl == config.templates[CHOOSE i \in Requested : TRUE]
  IN  tpl.focus \o SuppliedOr(ret.args.focusBoost, <<>>)

FirstIndex(s, x) == CHOOSE i \in 1..Len(s) : s[i] = x /\ \A j \in 1..(i - 1) : s[j] # x

\* C5: the rendered focus list holds every topic of the template's focus
\* followed by the caller's focusBoost exactly once, ordered by first
\* occurrence in that concatenation.
C5_FocusIsOrderedUnion ==
  ComposedOk =>
    /\ Cardinality(LinesWithHead(ret.res.text, "Focus: ")) = 1
    /\ \A i \in LinesWithHead(ret.res.text, "Focus: ") :
         LET pieces == Tail(ret.res.text[i])
             shown == IF pieces = <<>> THEN <<>> ELSE Unjoin(pieces)
         IN  /\ \A k \in 1..Len(pieces) : k % 2 = 0 => pieces[k] = ", "
             /\ {shown[k] : k \in 1..Len(shown)} = {FocusInput[k] : k \in 1..Len(FocusInput)}
             /\ \A a, b \in 1..Len(shown) : a # b => shown[a] # shown[b]
             /\ \A a, b \in 1..Len(shown) :
                  a < b => FirstIndex(FocusInput, shown[a]) < FirstIndex(FocusInput, shown[b])

\* the boost repeats a topic of the template and one of its own
C5_Witness ==
  /\ ComposedOk
  /\ ret.args.templateId = "t1"
  /\ ret.args.focusBoost = {<<"event-loop", "hoisting", "event-loop">>}
  /\ HasLine(ret.res.text, <<"Focus: ", "closures", ", ", "event-loop", ", ", "hoisting">>)

----------------------------------------------------------------------------
(* C6 *)

\* the index of the first line equal to the header, 0 when there is none
HeaderAt(text, header) ==
  IF HasLine(text, <<header>>)
  THEN CHOOSE i \in 1..Len(text) : text[i] = <<header>> /\ \A j \in 1..(i - 1) : text[j] # <<header>>
  ELSE 0

\* the lines below the OUTPUT FORMAT header
OutputFormatPart(text) == SubSeq(text, HeaderAt(text, "OUTPUT FORMAT:") + 1, Len(text))

\* the OUTPUT FORMAT line of each section of the enumeration
LineOfSection(name) ==
  CASE name = "idealAnswer" -> <<"3) Ideal answer (structured)">>
    [] name = "commonMistakes" -> <<"- Common mistakes">>
    [] name = "edgeCases" -> <<"- Edge cases">>
    [] name = "tradeOffs" -> <<"- Trade-offs">>
    [] name = "seniorVsMiddle" -> <<"- What differentiates Senior vs Middle answer">>
    [] name = "scoringRubric" ->
         <<"- Scoring rubric (0-10) with criteria: correctness, depth, clarity, trade-offs, practicality">>
    [] name = "measurementPlan" -> <<"- Measurement plan (what, how, success criteria)">>
    [] name = "rolloutPlan" -> <<"- Rollout plan (flags, canary, rollback)">>
    [] name = "securityConsiderations" -> <<"- Security considerations (when relevant)">>

\* C6: for each of the nine section names, OUTPUT FORMAT contains the
\* section's line if and only if the name is in the effective
\* included-sections set, whatever the other options are.
C6_SectionLineIffIncluded ==
  ComposedOk =>
    \A i \in Requested :
      \A n \in 1..Len(IncludeSection) :
        HasLine(OutputFormatPart(ret.res.text), LineOfSection(IncludeSection[n])) <=>
          (\E k \in 1..Len(DocumentedInclude(config.templates[i])) :
             DocumentedInclude(config.templates[i])[k] = IncludeSection[n])

----------------------------------------------------------------------------
(* C7 *)

Headers == <<"ROLE:", "CONTEXT:", "TASK:", "CONSTRAINTS:", "MODE:", "OUTPUT FORMAT:">>

\* C7: CONSTRAINTS is present exactly when the template has a non-empty
\* constraints list, the Extra context line exactly when extraContext holds a
\* character that is not white space, and the headers present appear once
\* each, in the order ROLE, CONTEXT, TASK, CONSTRAINTS, MODE, OUTPUT FORMAT.
C7_SectionsPresentAndOrdered ==
  ComposedOk =>
    LET text == ret.res.text
        tpl == config.templates[CHOOSE i \in Requested : TRUE]
    IN  /\ HasLine(text, <<"CONSTRAINTS:">>) <=>
             (tpl.constraints # {} /\ (CHOOSE c \in tpl.constraints : TRUE) # <<>>)
        /\ (LinesWithHead(text, "Extra context: ") # {}) <=>
             (/\ ret.args.extraContext # {}
              /\ LET ec == CHOOSE e \in ret.args.extraContext : TRUE
                 IN  \E k \in 1..Len(ec) : ec[k] \notin {" ", "\t", "\n"})
        /\ \A h \in 1..Len(Headers) :
             /\ Cardinality({i \in 1..Len(text) : text[i] = <<Headers[h]>>}) <= 1
             /\ Headers[h] # "CONSTRAINTS:" => HasLine(text, <<Headers[h]>>)
        /\ \A g, h \in 1..Len(Headers) :
             (g < h /\ HasLine(text, <<Headers[g]>>) /\ HasLine(text, <<Headers[h]>>))
               => HeaderAt(text, Headers[g]) < HeaderAt(text, Headers[h])

\* constraints and a padded extra context are both rendered
C7_Witness ==
  /\ ComposedOk
  /\ ret.args.templateId = "t2"
  /\ ret.args.extraContext = {<<" ", "f", "i", " ">>}
  /\ HasLine(ret.res.text, <<"Extra context: ", "f", "i">>)
  /\ HasLine(ret.res.text, <<"CONSTRAINTS:">>)
  /\ HasLine(ret.res.text, <<"- ", "No frameworks">>)

\* a white-space-only extra context and an empty constraints list add nothing
C7_WitnessAbsent ==
  /\ ComposedOk
  /\ ret.args.templateId = "t3"
  /\ ret.args.extraContext = {<<" ", "\t">>}
  /\ ~HasLine(ret.res.text, <<"CONSTRAINTS:">>)
  /\ LinesWithHead(ret.res.text, "Extra context: ") = {}

----------------------------------------------------------------------------
(* C8 *)

WaitShape(text) ==
  /\ HasLine(text, SimulationLine)
  /\ HasLine(text, <<"3) Wait for my answer">>)
  /\ HasLine(text, <<"4) Evaluate my answer strictly like a real interviewer">>)

NoWaitInstruction(text) ==
  /\ ~HasLine(text, SimulationLine)
  /\ ~HasLine(text, <<"3) Wait for my answer">>)
  /\ ~HasLine(text, <<"4) Evaluate my answer strictly like a real interviewer">>)

DirectShape(text) ==
  /\ HasLine(text, DirectLine)
  /\ HasLine(text, <<"3) Ideal answer (structured)">>)

NoDirectInstruction(text) ==
  /\ ~HasLine(text, DirectLine)
  /\ ~HasLine(text, <<"3) Ideal answer (structured)">>)

\* C8: a composed text has exactly one of the two shapes, chosen by the
\* effective simulation flag: simulation on gives the wait instructions and no
\* ideal-answer instruction, simulation off gives the ideal-answer
\* instructions and no wait instruction.
C8_ExactlyOneShape ==
  ComposedOk =>
    IF ExpectedSimulation
    THEN WaitShape(ret.res.text) /\ NoDirectInstruction(ret.res.text)
    ELSE DirectShape(ret.res.text) /\ NoWaitInstruction(ret.res.text)

\* the caller turns the simulation on against the default
C8_Witness ==
  /\ ComposedOk
  /\ ~config.defaults.simulation
  /\ SuppliedMode("simulation") = {TRUE}
  /\ WaitShape(ret.res.text)
  /\ NoDirectInstruction(ret.res.text)

----------------------------------------------------------------------------
(* C9 *)

\* C9: two calls of composeInterviewPrompt with the same options give the
\* same result (text or error) whatever the clock and the session store hold
\* and whatever was called in between, and a call leaves the configuration
\* and the session store as they were.
C9_ComposeDeterministicAndPure ==
  /\ (Composed /\ kept # {}) =>
       LET earlier == CHOOSE k \in kept : TRUE
       IN  earlier.call.args = ret.args => earlier.call.res = ret.res
  /\ Composed => (file = pre.file /\ config = pre.config)

\* the same options composed again after the clock advanced and a session
\* was created
C9_Witness ==
  /\ Composed /\ kept # {}
  /\ LET earlier == CHOOSE k \in kept : TRUE
     IN  /\ earlier.call.args = ret.args
         /\ earlier.now # now
         /\ earlier.file # file
  /\ ret.res.ok
  /\ uuids > 0

----------------------------------------------------------------------------
(* C10 *)

\* C10: createSession returns a record whose id no element of the store has,
\* with the given templateId and level and neither score nor notes, and the
\* persisted list is then the previously loaded list with this record
\* appended at the end.
C10_CreateAppendsFreshRecord ==
  ret.op = "createSession" =>
    LET s == ret.res
        loaded == readSessions(build, pre.file)
    IN  /\ \A i \in 1..Len(pre.file.elems) : pre.file.elems[i].id # s.id
        /\ s.id.t = "string"
        /\ s.templateId = [t |-> "string", v |-> ret.args[1]]
        /\ s.level = [t |-> "string", v |-> ret.args[2]]
        /\ s.score.t = "undefined"
        /\ s.notes.t = "undefined"
        /\ file.kind = "array"
        /\ Len(file.elems) = Len(loaded) + 1
        /\ \A i \in 1..Len(loaded) : file.elems[i] = loaded[i]
        /\ file.elems[Len(file.elems)] = s

\* a session is created on a store that held a valid and an invalid element
C10_Witness ==
  /\ ret.op = "createSession"
  /\ Len(pre.file.elems) = 2
  /\ Len(readSessions(build, pre.file)) = 1
  /\ Len(file.elems) = 2
  /\ file.elems[2] = ret.res

----------------------------------------------------------------------------
(* Claims about updateSessionScore *)

Updated == ret.op = "updateSessionScore"

\* the elements of the stored list that carry the id
StoredWithId(f, sessionId) ==
  {i \in 1..Len(f.elems) : f.elems[i].obj /\ f.elems[i].id = JString(sessionId)}

OutOfRange(score) == score.k \in {"nan", "inf", "ninf"} \/ score.x < 0 \/ score.x > 1000

\* C11: an updateSessionScore call whose score is NaN, infinite, below 0 or
\* above 10 fails, whatever the session id, and the persisted store is exactly
\* what it was before the call.
C11_BadScoreRejectedStoreUntouched ==
  (Updated /\ OutOfRange(ret.args.score)) => (~ret.ok /\ file = pre.file)

\* a refused call on an id the store holds, and one on an id it does not hold
C11_Witness ==
  /\ Updated /\ ret.args.score.k = "nan" /\ ~ret.ok
  /\ StoredWithId(pre.file, ret.args.sessionId) # {}
  /\ file = pre.file

C11_WitnessUnknownId ==
  /\ Updated /\ ret.args.score = Fin(1001) /\ ~ret.ok
  /\ StoredWithId(pre.file, ret.args.sessionId) = {}

\* C12: an updateSessionScore call with a valid score and an id that no stored
\* record has fails with the not-found error and writes nothing: the store is
\* unchanged.
C12_UnknownIdNotFoundNoWrite ==
  (/\ Updated
   /\ ~OutOfRange(ret.args.score)
   /\ StoredWithId(pre.file, ret.args.sessionId) = {})
  => (~ret.ok /\ ret.error = "Session not found" /\ file = pre.file)

C12_Witness ==
  /\ Updated /\ ret.args.score = Fin(850)
  /\ pre.file.kind = "array" /\ Len(pre.file.elems) > 0
  /\ StoredWithId(pre.file, ret.args.sessionId) = {}
  /\ ret.error = "Session not found"
  /\ file = pre.file

\* the record of the list read from f that a call on the id targets
Target(f, sessionId) ==
  LET loaded == readSessions(build, f)
      hits == {i \in 1..Len(loaded) : loaded[i].id = JString(sessionId)}
  IN  loaded[CHOOSE i \in hits : \A j \in hits : i <= j]

\* C13: a successful updateSessionScore sets the score of the record; it sets
\* the notes when notes are given and leaves the earlier notes as they were
\* when they are not.
C13_ScoreSetNotesOnlyWhenGiven ==
  (Updated /\ ret.ok) =>
    LET before == Target(pre.file, ret.args.sessionId)
        after == Target(file, ret.args.sessionId)
    IN  /\ after.score = JNumber(ret.args.score)
        /\ after.notes = (IF ret.args.notes = Undefined THEN before.notes
                          ELSE JString(Get(ret.args.notes)))

\* updateScore(id, 8.5, "good") on a created record, then updateScore(id, 7)
\* without notes: the record read back has score 7 and still notes "good"
C13_Witness ==
  /\ Updated /\ ret.ok
  /\ ret.args.sessionId = randomUUID(1)
  /\ ret.args.notes = Undefined /\ ret.args.score = Fin(700)
  /\ Target(pre.file, randomUUID(1)).score = JNumber(Fin(850))
  /\ Target(pre.file, randomUUID(1)).notes = JString("good")
  /\ Target(file, randomUUID(1)).score = JNumber(Fin(700))
  /\ Target(file, randomUUID(1)).notes = JString("good")

\* updateScore(id, 8.5, "good") read back
C13_WitnessGiven ==
  /\ Updated /\ ret.ok
  /\ ret.args.score = Fin(850) /\ ret.args.notes = Some("good")
  /\ Target(pre.file, ret.args.sessionId).notes.t = "undefined"
  /\ Target(file, ret.args.sessionId).score = JNumber(Fin(850))
  /\ Target(file, ret.args.sessionId).notes = JString("good")

----------------------------------------------------------------------------
(* Claims about listSessions and reading the store *)

Listed == ret.op = "listSessions"

\* a record that satisfies the data model
ValidRecord(e) ==
  /\ e.obj
  /\ e.id.t = "string" /\ e.date.t = "string" /\ e.templateId.t = "string"
  /\ e.level.t = "string" /\ e.level.v \in {"junior", "middle", "senior"}
  /\ (e.score.t = "undefined" \/ (e.score.t = "number" /\ e.score.v.k = "fin"))
  /\ e.notes.t \in {"undefined", "string"}

ValidStored(f) == IF f.kind = "array" THEN SelectSeq(f.elems, ValidRecord) ELSE <<>>

DigitValue(c) == CHOOSE d \in 0..9 : ToString(d) = c

\* the instant a timestamp denotes
RECURSIVE DateValue(_)
DateValue(d) ==
  IF Len(d) = 0 THEN 0
  ELSE 10 * DateValue(SubSeq(d, 1, Len(d) - 1)) + DigitValue(d[Len(d)])

Instant(e) == DateValue(e.date.v)

\* the place the i-th stored record takes: after every later record and after
\* the records of the same instant stored before it
PlaceOf(stored, i) ==
  1 + Cardinality({j \in 1..Len(stored) : Instant(stored[j]) > Instant(stored[i])})
    + Cardinality({j \in 1..(i - 1) : Instant(stored[j]) = Instant(stored[i])})

\* C14: listSessions returns exactly the valid stored records, most recent
\* first; records of the same date keep the relative order they have in the
\* stored list.
C14_ListIsValidRecordsNewestFirstStable ==
  Listed =>
    LET stored == ValidStored(pre.file)
    IN  /\ ret.ok
        /\ Len(ret.res) = Len(stored)
        /\ \A i \in 1..Len(stored) : ret.res[PlaceOf(stored, i)] = stored[i]

\* a list that moved the newest record to the front and holds two records of
\* one date in their stored order
C14_Witness ==
  /\ Listed /\ ret.ok
  /\ ret.res # ValidStored(pre.file)
  /\ \E i, j \in 1..Len(ret.res) : i < j /\ ret.res[i].date = ret.res[j].date

\* a list that left out an invalid element of the file
C14_WitnessDropped ==
  /\ Listed /\ ret.ok
  /\ Len(ret.res) > 0
  /\ Len(pre.file.elems) > Len(ret.res)

\* listSessions called right after a createSession that returned
ListedAfterCreate == Listed /\ ret.after # Undefined

Created == Get(ret.after)

\* the valid stored records other than the created one
Others ==
  LET stored == ValidStored(pre.file)
  IN  {stored[i] : i \in {j \in 1..Len(stored) : stored[j].id # Created.id}}

\* C15 as stated: after createSession returns s, an immediately following
\* listSessions returns s as its first element whenever no other stored record
\* has a timestamp later than s.date.
C15_CreatedFirstUnlessLaterExists ==
  (ListedAfterCreate /\ \A e \in Others : ~(Instant(e) > Instant(Created)))
  => (ret.ok /\ Len(ret.res) > 0 /\ ret.res[1] = Created)

\* C15 amended: after createSession returns s, an immediately following
\* listSessions returns s as its first element whenever every other stored
\* record has a timestamp strictly earlier than s.date.
C15_CreatedFirstWhenOthersEarlier ==
  (ListedAfterCreate /\ \A e \in Others : Instant(e) < Instant(Created))
  => (ret.ok /\ Len(ret.res) > 0 /\ ret.res[1] = Created)

\* the created record, stored last, listed first ahead of earlier records
C15_Witness ==
  /\ ListedAfterCreate /\ ret.ok
  /\ Others # {}
  /\ \A e \in Others : Instant(e) < Instant(Created)
  /\ ret.res[1] = Created
  /\ pre.file.elems[Len(pre.file.elems)] = Created

RoundTripped == ret.op = "roundTrip"

SameRecord(a, b) ==
  /\ a.id = b.id /\ a.templateId = b.templateId /\ a.level = b.level
  /\ a.score = b.score /\ a.notes = b.notes

\* C16: for every list of N valid sessions (level junior, middle or senior,
\* score absent or in [0,10], notes absent or a string), writeSessions followed
\* by readSessions yields N records equal to the originals on id, templateId,
\* level, score and notes.
C16_WriteThenReadIsSameList ==
  RoundTripped =>
    /\ Len(ret.res) = Len(ret.args)
    /\ \A i \in 1..Len(ret.args) : SameRecord(ret.res[i], ret.args[i])

\* the same round trip in the store that accepts the three levels
C16_RoundTripThreeLevelStore ==
  (RoundTripped /\ build = "junior-middle-senior") =>
    /\ Len(ret.res) = Len(ret.args)
    /\ \A i \in 1..Len(ret.args) : SameRecord(ret.res[i], ret.args[i])

\* a store file that is missing, empty, not JSON, or JSON that is no array
Unreadable(f) == f.kind \in {"missing", "blank", "corrupt", "nonarray"}

\* C17: when the store file is missing, empty, unparsable or parses to a
\* non-array, reading the store returns the empty sequence without an error:
\* listSessions returns the empty list, and createSession, which reads the
\* store first, returns and leaves a list of its one record.
C17_UnreadableStoreReadsEmpty ==
  /\ (Listed /\ Unreadable(pre.file)) => (ret.ok /\ ret.res = <<>>)
  /\ (ret.op = "createSession" /\ Unreadable(pre.file))
       => (ret.ok /\ file = ArrayFile(<<ret.res>>))

C17_Witness ==
  /\ Listed /\ pre.file.kind = "corrupt"
  /\ ret.ok /\ ret.res = <<>>

C17_WitnessNonArray ==
  /\ ret.op = "createSession" /\ pre.file.kind = "nonarray"
  /\ ret.ok /\ file = ArrayFile(<<ret.res>>)

\* the data-model invariant of one persisted record
WellFormed(e) ==
  /\ e.obj
  /\ e.id.t = "string" /\ e.id.v # ""
  /\ e.date.t = "string" /\ Len(e.date.v) > 0
  /\ e.templateId.t = "string" /\ e.templateId.v # ""
  /\ e.level.t = "string" /\ e.level.v \in {"junior", "middle", "senior"}
  /\ \/ e.score.t = "undefined"
     \/ e.score.t = "number" /\ e.score.v.k = "fin" /\ e.score.v.x >= 0 /\ e.score.v.x <= 1000
  /\ e.notes.t \in {"undefined", "string"}

\* C18: after any sequence of createSession and updateSessionScore calls every
\* persisted record has id, date and templateId non-empty strings, a level
\* among junior, middle and senior, a score that is absent or finite in [0,10]
\* and notes that are absent or a string.
C18_PersistedRecordsWellFormed ==
  (ret.op \in {"createSession", "updateSessionScore"} /\ ret.ok)
  => \A i \in 1..Len(file.elems) : WellFormed(file.elems[i])

----------------------------------------------------------------------------
(* Claims about the front ends *)

\* the last call was a generate run of the CLI or a POST /api/generate
CliGenerated ==
  ret.op = "main" /\ ~ret.args.help /\ ~ret.args.listTemplates /\ ~ret.args.recordEval

HttpGenerated == ret.op = "generate"

\* the template id and level of the request, when it carries them
AskedTemplate == IF CliGenerated THEN Some(ret.args.templateId) ELSE ret.args.templateId

AskedLevel == IF CliGenerated THEN Some(ret.args.level) ELSE ret.args.level

\* the configuration has the template and the template lists the level
TemplateAndLevelValid ==
  /\ AskedTemplate # Undefined /\ AskedLevel # Undefined
  /\ \E i \in 1..Len(config.templates) :
       /\ config.templates[i].id = Get(AskedTemplate)
       /\ \E k \in 1..Len(config.templates[i].levels) :
            config.templates[i].levels[k] = Get(AskedLevel)

SessionCreationOn ==
  IF CliGenerated THEN ret.args.persistSession ELSE ret.args.persistSession # Some(FALSE)

EndedWithError == IF CliGenerated THEN ret.exit # 0 ELSE ret.status = 400

StoredIds(f) == {f.elems[i].id : i \in {j \in 1..Len(f.elems) : f.elems[j].obj}}

\* the file holds a record it did not hold before the call
RecordCreated == StoredIds(file) \ StoredIds(pre.file) # {}

\* the position of a call in the order of the calls the run made, 0 if absent
CallAt(name) ==
  IF Includes(ret.trace, name) THEN CHOOSE i \in 1..Len(ret.trace) : ret.trace[i] = name ELSE 0

\* C19: in the generate operation of the CLI and of POST /api/generate a
\* session record is created only after the template id and level were
\* validated and the prompt composed; when the template is unknown or the level
\* unsupported the run ends with an error (non-zero exit, error response) and
\* the store is unchanged; when session creation is disabled no record is
\* created.
C19_SessionOnlyAfterValidationAndCompose ==
  (CliGenerated \/ HttpGenerated) =>
    /\ RecordCreated =>
         /\ TemplateAndLevelValid
         /\ 0 < CallAt("validate")
         /\ CallAt("validate") < CallAt("compose")
         /\ CallAt("compose") < CallAt("create")
    /\ ~TemplateAndLevelValid => (EndedWithError /\ file = pre.file)
    /\ ~SessionCreationOn => (~RecordCreated /\ ret.created = Undefined)

\* a request that created a session
C19_Witness ==
  /\ HttpGenerated /\ ret.status = 200
  /\ RecordCreated /\ ret.sessionId # Undefined
  /\ TemplateAndLevelValid

\* a CLI run refused for an unsupported level, with session creation on
C19_WitnessRefused ==
  /\ CliGenerated /\ ret.args.persistSession
  /\ ret.args.templateId = "t1" /\ ret.args.level = "middle"
  /\ ret.exit = 1 /\ file = pre.file

\* a valid CLI run with --no-session
C19_WitnessNoSession ==
  /\ CliGenerated /\ ~ret.args.persistSession
  /\ TemplateAndLevelValid
  /\ ret.exit = 0 /\ ~RecordCreated

----------------------------------------------------------------------------
(* Claims about the scorer *)

Evaluated == ret.op = "basicScoreEvaluation"

SameLetter(c, d) ==
  \/ c = d
  \/ \E i \in 1..Len(UpperLetters) :
       {c, d} = {UpperLetters[i], LowerLetters[i]}

\* the text holds the word at some place, letter case aside
ContainsAnyCase(text, word) ==
  \E i \in 1..Len(text) :
    /\ i + Len(word) - 1 <= Len(text)
    /\ \A k \in 1..Len(word) : SameLetter(text[i + k - 1], word[k])

\* two hundred times min(length / 200, 3) + 2 [trade-off] + 2 [o(]
RawTimes200(text) ==
  (IF Len(text) > 600 THEN 600 ELSE Len(text))
  + (IF ContainsAnyCase(text, <<"t", "r", "a", "d", "e", "-", "o", "f", "f">>) THEN 400 ELSE 0)
  + (IF ContainsAnyCase(text, <<"o", "(">>) THEN 400 ELSE 0)

\* the integer nearest to x / 200, the upper one of two
Nearest(x) == CHOOSE r \in 0..20 : 200 * r - 100 <= x /\ x < 200 * r + 100

\* C20: the score of basicScoreEvaluation is an integer in 0..10 equal to
\* min(round(min(length / 200, 3) + 2 if the answer contains "trade-off" + 2
\* if it contains "o(", letter case aside), 10), and the weaknesses are
\* non-empty exactly when the score is below 6.
C20_ScoreFormulaAndWeaknesses ==
  Evaluated =>
    LET text == AnswerText(ret.args)
        rounded == Nearest(RawTimes200(text))
    IN  /\ ret.res.score \in 0..10
        /\ ret.res.score = (IF rounded < 10 THEN rounded ELSE 10)
        /\ (ret.res.weaknesses # <<>>) <=> (ret.res.score < 6)

\* a long answer with both words in capitals: score 7, no weakness
C20_Witness ==
  /\ Evaluated
  /\ Len(AnswerText(ret.args)) > 600
  /\ ret.args.ending = <<"T", "R", "A", "D", "E", "-", "O", "F", "F", " ", "o", "(", "1", ")">>
  /\ ret.res.score = 7
  /\ ret.res.weaknesses = <<>>

\* an answer of 100 characters: 0.5 rounds up to 1, and the weakness is there
C20_WitnessHalf ==
  /\ Evaluated
  /\ Len(AnswerText(ret.args)) = 100
  /\ ret.res.score = 1
  /\ ret.res.weaknesses # <<>>

----------------------------------------------------------------------------
(* Claims about calls that follow one another *)

\* the record the first createSession of the run returned
FirstCreated(f) ==
  LET loaded == readSessions(build, f)
  IN  {loaded[i] : i \in {j \in 1..Len(loaded) : loaded[j].id = JString(randomUUID(1))}}

\* updateSessionScore called with a valid score on the id createSession
\* returned earlier in the run
ScoredCreated ==
  /\ Updated /\ ~OutOfRange(ret.args.score)
  /\ uuids >= 1 /\ ret.args.sessionId = randomUUID(1)

\* C21: within one process, after createSession(templateId, level) returned s,
\* for any level among junior, middle and senior, a following
\* updateSessionScore(s.id, score) with a valid score succeeds, and the store
\* read afterwards holds s with that score.
C21_UpdateSeesCreatedSession ==
  ScoredCreated =>
    /\ ret.ok
    /\ \E s \in FirstCreated(file) : s.score = JNumber(ret.args.score)

\* the same in the stores whose isValidSession accepts the three levels
C21_UpdateSeesCreatedThreeLevelStores ==
  (ScoredCreated /\ build # "middle-senior") =>
    /\ ret.ok
    /\ \E s \in FirstCreated(file) : s.score = JNumber(ret.args.score)

\* a successful createSession or updateSessionScore of the file store
Mutated == ret.op \in {"createSession", "updateSessionScore"} /\ ret.ok /\ build \in FileBuilds

\* the elements of an array file that pass isValidSession, in order
Passing(f) ==
  IF f.kind = "array" THEN SelectSeq(f.elems, LAMBDA e : isValidSession(build, e)) ELSE <<>>

\* the file holds something a load drops: it is corrupt or has a failing element
HoldsDropped(f) == f.kind = "corrupt" \/ Len(Passing(f)) < Len(f.elems)

\* C27: records dropped on load are lost at the next mutation. After a
\* successful createSession or updateSessionScore the file is an array of
\* exactly the records that passed validation before the call, in their order
\* and with their ids, plus the created record: no dropped element and nothing
\* of a corrupt content is left in it.
C27_MutationRewritesOnlyValidRecords ==
  Mutated =>
    LET passed == Passing(pre.file)
        grown == IF ret.op = "createSession" THEN 1 ELSE 0
    IN  /\ file.kind = "array"
        /\ Len(file.elems) = Len(passed) + grown
        /\ \A i \in 1..Len(passed) : file.elems[i].id = passed[i].id
        /\ \A i \in 1..Len(passed) : isValidSession(build, file.elems[i])
        /\ HoldsDropped(pre.file) => file # pre.file

\* an update that succeeded on a file with a failing element: the element is gone
C27_Witness ==
  /\ Mutated /\ ret.op = "updateSessionScore"
  /\ pre.file.kind = "array" /\ Len(Passing(pre.file)) < Len(pre.file.elems)
  /\ Len(file.elems) = Len(Passing(pre.file))

\* a create on a corrupt file: the file is the list of the one new record
C27_WitnessCorrupt ==
  /\ Mutated /\ ret.op = "createSession"
  /\ pre.file.kind = "corrupt"
  /\ file = ArrayFile(<<ret.res>>)

Loaded == ret.op = "readSessions"

\* the indices of the elements of the file that satisfy isValidSession
ValidAt(f) == {i \in 1..Len(f.elems) : isValidSession(build, f.elems[i])}

\* C22: when the file holds a JSON array each element is validated on its own:
\* readSessions returns exactly the elements that satisfy isValidSession, in
\* their original order; an invalid element neither removes a valid one nor
\* makes the read fail.
C22_EachElementValidatedAlone ==
  (Loaded /\ pre.file.kind = "array") =>
    /\ ret.ok
    /\ Len(ret.res) = Cardinality(ValidAt(pre.file))
    /\ \A i \in ValidAt(pre.file) :
         ret.res[Cardinality({j \in ValidAt(pre.file) : j <= i})] = pre.file.elems[i]

\* a valid element, a failing one, a valid one: the two valid ones are returned
C22_Witness ==
  /\ Loaded /\ ret.ok
  /\ Len(pre.file.elems) = 3
  /\ ValidAt(pre.file) = {1, 3}
  /\ ret.res = <<pre.file.elems[1], pre.file.elems[3]>>

----------------------------------------------------------------------------
(* Claims about the CLI run as a whole *)

\* a generate run with session creation on, a score and a --session-id, for a
\* template and level the configuration has
ScoredOnGivenId ==
  /\ CliGenerated /\ TemplateAndLevelValid
  /\ ret.args.persistSession
  /\ ret.args.score # Undefined /\ ret.args.sessionId # Undefined

\* the records of the file that carry the id of the session the run created
CreatedInFile ==
  {file.elems[i] : i \in {j \in 1..Len(file.elems) : file.elems[j].id = Get(ret.created).id}}

\* C30: the CLI generate run is not all-or-nothing. With --score and a
\* --session-id that no stored record has, and session creation on, the run
\* persists a new session, prints the prompt, then fails in updateSessionScore
\* and exits non-zero, and the new session stays in the store without a score;
\* a --session-id that is given is the one scored, not the session just created.
C30_ScoreFailureKeepsCreatedSession ==
  ScoredOnGivenId =>
    /\ ret.trace = <<"validate", "compose", "create", "print", "update">>
    /\ ret.created # Undefined
    /\ \A s \in CreatedInFile : s.score.t = "undefined"
    /\ StoredWithId(pre.file, Get(ret.args.sessionId)) = {} =>
         /\ ret.exit # 0
         /\ ret.error = <<"Session not found">>
         /\ CreatedInFile # {}
         /\ Len(file.elems) = Len(readSessions(build, pre.file)) + 1
    /\ ret.exit = 0 =>
         \E i \in StoredWithId(file, Get(ret.args.sessionId)) :
           file.elems[i].score = JNumber(Get(ret.args.score))

\* the failing run: a session was created and the exit code is 1
C30_Witness ==
  /\ ScoredOnGivenId
  /\ StoredWithId(pre.file, Get(ret.args.sessionId)) = {}
  /\ ret.exit = 1
  /\ CreatedInFile # {}
  /\ file # pre.file

\* the run that scores the stored record named by --session-id
C30_WitnessPrecedence ==
  /\ ScoredOnGivenId
  /\ ret.exit = 0
  /\ CreatedInFile # {}
  /\ ret.args.sessionId # Some(Get(ret.created).id.v)

----------------------------------------------------------------------------
(* Claims about what a mutation leaves alone *)

\* the records a store content holds
RecordsOf(f) == IF f.kind = "array" THEN f.elems ELSE <<>>

\* the place of the first record of the list q that has the id, or 0
FirstWithId(q, id) ==
  IF \E i \in 1..Len(q) : q[i].id = JString(id)
  THEN CHOOSE i \in 1..Len(q) : q[i].id = JString(id) /\ \A j \in 1..(i - 1) : q[j].id # JString(id)
  ELSE 0

\* r is the record s with, at most, another score and other notes
SameButScore(s, r) == r = [s EXCEPT !.score = r.score, !.notes = r.notes]

\* what the last call left of the records the store held when it started
FrameKept ==
  LET old == RecordsOf(pre.file)
      new == RecordsOf(file)
  IN  /\ Len(new) < Len(old) => ret.op = "clearSessions"
      /\ ret.op \in {"createSession", "updateSessionScore"} =>
           /\ Len(new) >= Len(old)
           /\ \A i \in 1..Len(old) : SameButScore(old[i], new[i])
      /\ ret.op = "createSession" => \A i \in 1..Len(old) : new[i] = old[i]
      /\ ret.op = "updateSessionScore" =>
           \A i \in 1..Len(old) :
             new[i] # old[i] => ret.ok /\ i = FirstWithId(old, ret.args.sessionId)

\* C28: from a store of valid records, no createSession or updateSessionScore
\* removes or reorders a record or changes the id, date, templateId or level
\* of one; createSession leaves every existing record as it was and
\* updateSessionScore changes the score and notes of the first record with the
\* id only; the number of records decreases by clearSessions alone.
C28_MutationsKeepExistingRecords == FrameKept

\* the same in the stores whose isValidSession accepts the three levels
C28_ThreeLevelStoresKeepExistingRecords == build # "middle-senior" => FrameKept

\* a score saved on the first of two records with the same id, the other left
C28_WitnessFirstOfTwo ==
  /\ build # "middle-senior"
  /\ Updated /\ ret.ok
  /\ Len(RecordsOf(pre.file)) = 2
  /\ pre.file.elems[1].id = pre.file.elems[2].id
  /\ file.elems[1] # pre.file.elems[1]
  /\ file.elems[2] = pre.file.elems[2]

\* the browser store emptied while it held records
C28_WitnessCleared ==
  /\ ret.op = "clearSessions"
  /\ Len(RecordsOf(pre.file)) > 0
  /\ RecordsOf(file) = <<>>

----------------------------------------------------------------------------
(* Claims about creation timestamps *)

\* the places, in the stored list, of the records this process created
CreatedHere ==
  {i \in 1..Len(RecordsOf(file)) :
     \E n \in 1..uuids : file.elems[i].id = JString(randomUUID(n))}

\* C26: the timestamps of the sessions created by successive createSession
\* calls of one process are non-decreasing: a created before b has
\* a.date <= b.date (records are appended, so a is stored before b).
C26_CreationDatesNonDecreasing ==
  \A i \in CreatedHere, j \in CreatedHere :
    i < j => localeCompare(file.elems[i].date.v, file.elems[j].date.v) <= 0

\* C26, second half: the stored list is in non-decreasing date order
C26_StoredListInDateOrder ==
  \A i \in 1..Len(RecordsOf(file)), j \in 1..Len(RecordsOf(file)) :
    i < j => localeCompare(file.elems[i].date.v, file.elems[j].date.v) <= 0

\* two records created one after the other, the clock having advanced between
C26_WitnessLaterDate ==
  \E i \in CreatedHere, j \in CreatedHere :
    i < j /\ localeCompare(file.elems[i].date.v, file.elems[j].date.v) < 0

----------------------------------------------------------------------------
(* Claims about the two stores compared *)

\* a call made on both stores
Twinned == ret.op = "twin"

\* C29: from empty stores and with the same identifiers and timestamps, every
\* sequence of create, updateScore and list calls with the same arguments
\* fails on the same calls in the browser store and in the file store, and
\* list (and create) return the same in both.
C29_StoresAgreeForCallers ==
  Twinned =>
    /\ ret.fileStore.ok = ret.browser.ok
    /\ ret.call \in {"listSessions", "createSession"} => ret.fileStore.res = ret.browser.res

\* both stores list the same two records, one of them scored with notes
C29_Witness ==
  /\ Twinned /\ ret.call = "listSessions"
  /\ ret.browser.ok
  /\ Len(ret.browser.res) = 2
  /\ ret.fileStore.res = ret.browser.res
  /\ \E i \in 1..2 : ret.browser.res[i].notes.t = "string"

\* both stores refuse the same call
C29_WitnessBothFail ==
  /\ Twinned /\ ret.call = "updateSessionScore"
  /\ ~ret.browser.ok /\ ~ret.fileStore.ok
  /\ RecordsOf(file) # <<>>

----------------------------------------------------------------------------
(* Claims about processes that share the file *)

\* a reader has read sessions.json
Observed == ret.op = "observe"

\* C23: while a writer executes writeSessions (payload to a temporary file,
\* then rename over sessions.json), a reader of sessions.json sees, at every
\* point, the complete content from before the write or the complete new
\* content (of this or of another writer that has renamed), never a partial or
\* an empty file.
C23_ReaderSeesWholeContent ==
  Observed =>
    /\ ret.res.kind \notin {"blank", "corrupt"}
    /\ \A p \in DOMAIN ret.writers :
         \/ ret.res = ret.writers[p].before
         \/ ret.res = writeSessions(ret.writers[p].sessions)
         \/ \E q \in ret.renamed : ret.res = writeSessions(q)

\* read while the writer's temporary file is still empty: the previous content
C23_Witness ==
  /\ Observed
  /\ \E p \in DOMAIN ret.writers :
       /\ ret.writers[p].pc = "writing"
       /\ ret.res = ret.writers[p].before
       /\ ret.res.kind = "array"
       /\ ret.res # writeSessions(ret.writers[p].sessions)

\* read after the rename: the new content
C23_WitnessNew ==
  /\ Observed
  /\ ret.renamed # {}
  /\ \E q \in ret.renamed : ret.res = writeSessions(q)
  /\ ret.res # pre.file

\* what the call of process p makes of the content f when it runs alone
Alone(p, f) ==
  LET proc == procs[p]
  IN  IF proc.call.op = "createSession"
      THEN createOutcome(build, f, proc.n, proc.t, proc.call.templateId, proc.call.level).file
      ELSE scoreOutcome(build, f, proc.call.sessionId, proc.call.score, proc.call.notes).file

\* both calls returned, and both had read the same content
BothReturnedFromSameRead ==
  /\ \A p \in Procs : procs[p].pc = "returned"
  /\ procs[1].before = procs[2].before

\* C24: two processes each run one read-modify-write on the same file; when
\* both have read before either renamed, both return successfully and the file
\* is what one of the two calls alone makes of the content they read: the
\* effect of the other call is lost, and nothing makes a process wait.
C24_LastRenameWins ==
  BothReturnedFromSameRead =>
    \E p \in Procs : file = Alone(p, procs[p].before)

\* two createSession calls returned, one record more in the file, and the
\* record of one of the two is not in it
C24_Witness ==
  /\ BothReturnedFromSameRead
  /\ \A p \in Procs : procs[p].call.op = "createSession"
  /\ Len(file.elems) = Len(RecordsOf(procs[1].before)) + 1
  /\ \E p \in Procs :
       \A i \in 1..Len(file.elems) : file.elems[i].id # JString(randomUUID(procs[p].n))

\* a score saved and a record created, and the file has only one of the two
C24_WitnessScoreLost ==
  /\ BothReturnedFromSameRead
  /\ procs[1].call.op = "updateSessionScore" /\ procs[2].call.op = "createSession"
  /\ file = Alone(2, procs[2].before)
  /\ file # Alone(2, Alone(1, procs[1].before))

\* the errors of writeFileSync and renameSync
IoErrors == {"EACCES", "ENOSPC", "EPERM"}

\* C25: when the write of the temporary file or the rename fails inside
\* createSession or updateSessionScore, the call ends with that failure (the
\* caller gets it), the process does not try again, and sessions.json holds
\* what it held before.
C25_WriteFailureLeavesFile ==
  [][\A p \in Procs :
       /\ (procs[p].error = "" /\ procs'[p].error \in IoErrors) =>
            (procs'[p].pc = "threw" /\ file' = file)
       /\ procs[p].error \in IoErrors => procs'[p] = procs[p]]_vars

\* the write failed part of the way: the temporary file is partial,
\* sessions.json is as the call found it
C25_Witness ==
  \E p \in Procs :
    /\ procs[p].pc = "threw" /\ procs[p].error = "ENOSPC"
    /\ temps[p] = PartialFile
    /\ file = procs[p].before
    /\ file.kind = "array"

\* the rename failed: the payload stays in the temporary file
C25_WitnessRename ==
  \E p \in Procs :
    /\ procs[p].pc = "threw" /\ procs[p].error = "EPERM"
    /\ temps[p] = writeSessions(procs[p].sessions)
    /\ file = procs[p].before
    /\ file # temps[p]

============================================================================
